---- MODULE Spec2Model ----
(***************************************************************************)
(* Model of app/api/gemini.py: the websocket endpoint of one session, the  *)
(* session registry (WebSocketConnectionManager), the tool gateway         *)
(* (MCPClient) with its subprocess, and the LangGraph workflow of          *)
(* LangGraphMCPExecutor (initialize, analyze_and_plan, execute_tool,       *)
(* update_context, finalize and the two routing functions).                *)
(*                                                                         *)
(* A Python string is modelled as a sequence of tokens (Str); a text is a  *)
(* sequence of lines, each line a Str.  "x in s" is token containment,     *)
(* startswith is a test of the first token.                                *)
(***************************************************************************)
EXTENDS Integers, Sequences, FiniteSets, TLC

\* ------------------------------------------------------------------ bounds
\* largest max_iterations a client sends (budgets are drawn from 0..MaxIter)
MaxIter == 3
\* what the environment does against one command while it is handled: a round
\* trip that fails or answers with an unparsable payload, a subprocess that
\* exits by itself, a transport failure of a send, a command the client sends
\* before the run it started has returned
MaxFaults == 1

\* ------------------------------------------------------------------ strings
S(t) == <<t>>

Contains(s, t) == \E i \in 1..Len(s) : s[i] = t

\* "t in content" for a text of several lines
TextContains(text, t) == \E l \in 1..Len(text) : Contains(text[l], t)

LowerTok(t) == IF t \in {"Error", "ERROR"} THEN "error" ELSE t

Lower(s) == [i \in 1..Len(s) |-> LowerTok(s[i])]

\* dict.get(key, default) on a record / mapping
Get(d, k, default) == IF k \in DOMAIN d THEN d[k] ELSE default

EmptyDict == [k \in {} |-> 0]

\* ------------------------------------------------------------------ JSON
\* json.loads of a payload text: the value, or JSONDecodeError.  A payload of
\* several tokens (extra data after a value, stray parentheses) does not parse.
JsonValues ==
  [ t \in {"{}", "{k:v}", "[1]", "{stores:[s1]}", "{stores:[m1]}", "{orders:[o1,o2]}", "{id:1}"} |->
      CASE t = "{}"               -> [kind |-> "dict", value |-> EmptyDict]
        [] t = "{k:v}"            -> [kind |-> "dict", value |-> [k |-> "v"]]
        [] t = "[1]"              -> [kind |-> "list", value |-> <<1>>]
        [] t = "{stores:[s1]}"    -> [kind |-> "dict", value |-> [stores |-> <<"s1">>]]
        [] t = "{stores:[m1]}"    -> [kind |-> "dict", value |-> [stores |-> <<"m1">>]]
        [] t = "{orders:[o1,o2]}" -> [kind |-> "dict", value |-> [orders |-> <<"o1", "o2">>]]
        [] t = "{id:1}"           -> [kind |-> "dict", value |-> [id |-> 1]] ]

\* payloads json.loads gives up on with an exception that is not a
\* JSONDecodeError: brackets nested deeper than the interpreter recurses
\* (RecursionError)
TooDeep == {"[[[["}

JsonLoads(s) ==
  IF Len(s) = 1 /\ s[1] \in DOMAIN JsonValues
  THEN [ok |-> TRUE, kind |-> JsonValues[s[1]].kind, value |-> JsonValues[s[1]].value]
  ELSE IF Len(s) = 1 /\ s[1] \in TooDeep
  THEN [ok |-> FALSE, kind |-> "RecursionError", value |-> EmptyDict]
  ELSE [ok |-> FALSE, kind |-> "JSONDecodeError", value |-> EmptyDict]

\* json.dumps of a call_tool result: {"error": str(e)} or {"content": [{"text": ...}]}
JsonDumps(result) ==
  IF "error" \in DOMAIN result
  THEN <<"{", "error", ":">> \o result.error \o <<"}">>
  ELSE <<"{", "content", ":">> \o result.content[1].text \o <<"}">>

\* ------------------------------------------------------------------ tool names
context_loading_tools == {S("get_all_stores"), S("get_all_main_stores"), S("get_all_orders")}

data_modifying_tools ==
  { S("create_store"), S("update_store"), S("delete_store"),
    S("create_main_store"), S("update_main_store"), S("delete_main_store"),
    S("create_order"), S("update_order"), S("delete_order") }

available_operations ==
  << "get_all_stores", "get_all_main_stores", "get_all_orders",
     "create_store", "update_store", "delete_store",
     "create_main_store", "update_main_store", "delete_main_store",
     "create_order", "update_order", "delete_order" >>

\* ------------------------------------------------------------------ subprocess
\* What the subprocess does with one request.  FailureOutcomes make
\* send_request fail: no response line, a response with a top-level "error",
\* a response line that is not JSON.
FailureOutcomes == {"no_line", "rpc_error", "bad_json"}

\* No response line because the subprocess has exited, and the event loop has
\* reaped it before the except block runs: Process.terminate() raises
\* ProcessLookupError there.
ReapedOutcomes == {"no_line_reaped"}

Failures == FailureOutcomes \cup ReapedOutcomes

\* what a round trip costs of the budget of environment failures
Used(exited, outcome) == (IF exited THEN 1 ELSE 0) + (IF outcome = "ok" THEN 0 ELSE 1)

\* the text a tool answers with when the round trip succeeds
ToolText(tool_name, outcome) ==
  CASE outcome = "errtext"   -> <<"Error", "not", "found">>
    [] outcome = "malformed" -> <<"not", "json">>
    [] outcome = "nondict"   -> S("[1]")
    [] tool_name = S("get_all_stores")      -> S("{stores:[s1]}")
    [] tool_name = S("get_all_main_stores") -> S("{stores:[m1]}")
    [] tool_name = S("get_all_orders")      -> S("{orders:[o1,o2]}")
    [] OTHER -> S("{id:1}")

\* ------------------------------------------------------------------ MCPClient
\* process: 0 is None, otherwise the pid of the subprocess the handle names.
\* spawned and live are the environment the gateway acts on: the number of
\* subprocesses it created and the pids still alive.  unanswered: the ids of
\* the requests written to the held subprocess whose response line has not
\* been read, oldest first; the subprocess answers its requests in the order
\* it reads them, one line each.  crossed: some request was written while
\* another was unanswered, so that a readline() got the line of another
\* request.
NewMCPClient ==
  [ process |-> 0, request_id |-> 0, spawned |-> 0, live |-> {},
    unanswered |-> <<>>, crossed |-> FALSE ]

\* a gateway that starts a subprocess before every request
_ensure_server_running_always(c, exited) ==
  [c EXCEPT !.process = c.spawned + 1,
            !.spawned = c.spawned + 1,
            !.unanswered = <<>>,
            !.live = (IF exited THEN c.live \ {c.process} ELSE c.live) \cup {c.spawned + 1}]

\* a gateway that starts counting again with every subprocess it starts
_ensure_server_running_recount(c, exited) ==
  IF c.process = 0 \/ exited \/ c.process \notin c.live
  THEN [c EXCEPT !.process = c.spawned + 1,
                 !.spawned = c.spawned + 1,
                 !.request_id = 0,
                 !.unanswered = <<>>,
                 !.live = (c.live \ {c.process}) \cup {c.spawned + 1}]
  ELSE c

\* exited: the held process has exited by itself since the last request.
\* returncode is not None for a process that has exited.
_ensure_server_running(c, exited) ==
  IF c.process = 0 \/ exited \/ c.process \notin c.live
  THEN [c EXCEPT !.process = c.spawned + 1,
                 !.spawned = c.spawned + 1,
                 !.unanswered = <<>>,
                 !.live = (c.live \ {c.process}) \cup {c.spawned + 1}]
  ELSE c

\* send_request up to the drain: the subprocess is there, the request has the
\* next id and is written to its stdin.
write_request(c, exited) ==
  LET c1 == _ensure_server_running(c, exited /\ c.process # 0)
  IN [c1 EXCEPT !.request_id = c1.request_id + 1,
                !.unanswered = Append(@, c1.request_id + 1),
                !.crossed = @ \/ c1.unanswered # <<>>]

\* a readline() that gives up on a silent subprocess and leaves it running
read_response_abandon(c, outcome, answer) ==
  IF outcome \in FailureOutcomes \cup ReapedOutcomes
  THEN [client |-> IF outcome = "no_line" THEN c
                   ELSE [c EXCEPT !.live = @ \ {c.process}, !.unanswered = <<>>],
        raised |-> TRUE, error |-> IF outcome \in ReapedOutcomes THEN <<>> ELSE S(outcome),
        result |-> EmptyDict,
        printed |-> {"Error communicating with MCP server"}]
  ELSE [client |-> [c EXCEPT !.unanswered = Tail(@)],
        raised |-> FALSE, error |-> <<>>, result |-> answer, printed |-> {}]

\* send_request from the readline() on: the gateway after it, whether it
\* raised, str(e) of what it raised, and its result.  The line read is the
\* oldest one the subprocess owes.  A subprocess that is terminated or has
\* exited owes nothing.  When terminate() raises in the except block the
\* assignment self.process = None is not reached and ProcessLookupError, whose
\* str is empty, is what the caller sees.
read_response(c, outcome, answer) ==
  IF outcome \in FailureOutcomes
  THEN [client |-> [c EXCEPT !.process = 0, !.live = @ \ {c.process},
                             !.unanswered = <<>>],
        raised |-> TRUE, error |-> S(outcome), result |-> EmptyDict,
        printed |-> {"Error communicating with MCP server"}]
  ELSE IF outcome \in ReapedOutcomes
  THEN [client |-> [c EXCEPT !.live = @ \ {c.process}, !.unanswered = <<>>],
        raised |-> TRUE, error |-> <<>>, result |-> EmptyDict,
        printed |-> {"Error communicating with MCP server"}]
  ELSE [client |-> [c EXCEPT !.unanswered = Tail(@)],
        raised |-> FALSE, error |-> <<>>, result |-> answer, printed |-> {}]

send_request(c, method, exited, outcome, answer) ==
  read_response(write_request(c, exited), outcome, answer)

\* call_tool: the exception of send_request becomes {"error": str(e)}
call_tool(c, tool_name, exited, outcome) ==
  LET r == send_request(c, "tools/call", exited, outcome,
                        [content |-> << [text |-> ToolText(tool_name, outcome)] >>])
  IN [client |-> r.client,
      result |-> IF r.raised THEN [error |-> r.error] ELSE r.result,
      printed |-> r.printed \cup (IF r.raised THEN {"Error calling tool"} ELSE {})]

\* close: the gateway after it and whether it raised.  exited: the held
\* process has exited by itself and was reaped; terminate() of a reaped process
\* raises ProcessLookupError and the handle is kept.
close(c, exited) ==
  IF c.process = 0
  THEN [client |-> c, raised |-> FALSE]
  ELSE IF exited \/ c.process \notin c.live
  THEN [client |-> [c EXCEPT !.live = @ \ {c.process}], raised |-> TRUE]
  ELSE [client |-> [c EXCEPT !.process = 0, !.live = @ \ {c.process}], raised |-> FALSE]

\* a basic context that says it is loaded
get_system_context_loaded ==
  [ stores |-> <<>>, main_stores |-> <<>>, orders |-> <<>>,
    total_counts |-> [stores |-> 0, main_stores |-> 0, orders |-> 0],
    context_loaded |-> TRUE,
    available_operations |-> available_operations ]

get_system_context ==
  [ stores |-> <<>>, main_stores |-> <<>>, orders |-> <<>>,
    total_counts |-> [stores |-> 0, main_stores |-> 0, orders |-> 0],
    context_loaded |-> FALSE,
    available_operations |-> available_operations ]

\* the loop body without the except clause for JSONDecodeError
ApplyResult_strict(context, result, key) ==
  IF "content" \in DOMAIN result /\ result.content # <<>>
  THEN LET data == JsonLoads(result.content[1].text)
       IN IF ~data.ok \/ data.kind # "dict"
          THEN [context |-> context, raised |-> TRUE]
          ELSE LET entities == Get(data.value, IF key # "orders" THEN "stores" ELSE "orders", <<>>)
               IN [context |-> [context EXCEPT ![key] = entities,
                                               !.total_counts[key] = Len(entities)],
                   raised |-> FALSE]
  ELSE [context |-> context, raised |-> FALSE]

\* One (result, key) pair of the loop of get_full_system_context: the context
\* after it, and whether an exception left the loop (caught by the outer try).
ApplyResult(context, result, key) ==
  IF "content" \in DOMAIN result /\ result.content # <<>>
  THEN LET data == JsonLoads(result.content[1].text)
       IN IF ~data.ok
          THEN [context |-> context, raised |-> data.kind # "JSONDecodeError"]
          ELSE IF data.kind # "dict"
          THEN [context |-> context, raised |-> TRUE]
          ELSE LET entities == Get(data.value, IF key # "orders" THEN "stores" ELSE "orders", <<>>)
               IN [context |-> [context EXCEPT ![key] = entities,
                                               !.total_counts[key] = Len(entities)],
                   raised |-> FALSE]
  ELSE [context |-> context, raised |-> FALSE]

\* One call of the gather and, unless an exception has left the loop, its
\* (result, key) pair.  acc: the gateway, the context, whether the loop was
\* left and the lines printed so far.
LoadStep(acc, tool_name, key, exited, outcome) ==
  [ client |-> call_tool(acc.client, tool_name, exited, outcome).client,
    context |-> IF acc.raised THEN acc.context
                ELSE ApplyResult(acc.context,
                                 call_tool(acc.client, tool_name, exited, outcome).result,
                                 key).context,
    raised |-> IF acc.raised THEN TRUE
               ELSE ApplyResult(acc.context,
                                call_tool(acc.client, tool_name, exited, outcome).result,
                                key).raised,
    printed |-> acc.printed \cup call_tool(acc.client, tool_name, exited, outcome).printed ]

\* the except clause of get_full_system_context and its return value
FullContext(acc) ==
  [ client |-> acc.client,
    context |-> IF acc.raised
                THEN acc.context @@ ("error" :> S("AttributeError"))
                ELSE acc.context,
    printed |-> acc.printed
                \cup (IF acc.raised THEN {"Error getting full system context"} ELSE {}) ]

\* exited: the held process had exited before the first call; outs: what the
\* subprocess did with each of the three calls.
get_full_system_context(c, exited, outs) ==
  FullContext(
    LoadStep(
      LoadStep(
        LoadStep([ client |-> c,
                   context |-> [get_system_context EXCEPT !.context_loaded = TRUE],
                   raised |-> FALSE, printed |-> {} ],
                 S("get_all_stores"), "stores", exited, outs[1]),
        S("get_all_main_stores"), "main_stores", FALSE, outs[2]),
      S("get_all_orders"), "orders", FALSE, outs[3]))

\* list_tools: the descriptors of tools/list, [] when send_request raised
list_tools(c, exited, outcome, catalog) ==
  LET r == send_request(c, "tools/list", exited, outcome, [tools |-> catalog])
  IN [client |-> r.client,
      tools |-> IF r.raised THEN <<>> ELSE Get(r.result, "tools", <<>>),
      printed |-> r.printed \cup (IF r.raised THEN {"Error listing tools"} ELSE {})]

\* ------------------------------------------------------------------ _extract_tool_call
\* str.strip(): leading and trailing blanks removed
LStrip(s) ==
  LET kept == {i \in 1..Len(s) : s[i] # " "}
  IN IF kept = {} THEN <<>>
     ELSE SubSeq(s, CHOOSE i \in kept : \A j \in kept : i <= j, Len(s))

RStrip(s) ==
  LET kept == {i \in 1..Len(s) : s[i] # " "}
  IN IF kept = {} THEN <<>>
     ELSE SubSeq(s, 1, CHOOSE i \in kept : \A j \in kept : j <= i)

Strip(s) == RStrip(LStrip(s))

First(s, t) == CHOOSE i \in 1..Len(s) : s[i] = t /\ \A j \in 1..(i - 1) : s[j] # t

Last(s, t) == CHOOSE i \in 1..Len(s) : s[i] = t /\ \A j \in (i + 1)..Len(s) : s[j] # t

\* line.split(":", 1)[1].strip() of a line that starts with EXECUTE:
ToolPart(line) == Strip(Tail(Strip(line)))

\* tool_part.split("(", 1)[1].rsplit(")", 1)[0]
ParamsStr(tool_part) ==
  LET rest == SubSeq(tool_part, First(tool_part, "(") + 1, Len(tool_part))
  IN IF Contains(rest, ")") THEN SubSeq(rest, 1, Last(rest, ")") - 1) ELSE rest

\* json.loads(params_str) if params_str.strip() else {}; {} on
\* JSONDecodeError.  kind "raised": json.loads raised another exception, which
\* the inner except clause lets through.
ParseParams(params_str) ==
  IF Strip(params_str) = <<>>
  THEN [kind |-> "dict", value |-> EmptyDict]
  ELSE IF JsonLoads(Strip(params_str)).ok
  THEN [kind |-> JsonLoads(Strip(params_str)).kind, value |-> JsonLoads(Strip(params_str)).value]
  ELSE IF JsonLoads(Strip(params_str)).kind = "JSONDecodeError"
  THEN [kind |-> "dict", value |-> EmptyDict]
  ELSE [kind |-> "raised", value |-> EmptyDict]

\* a line that starts with EXECUTE: and has both parentheses after it
HasCallForm(line) ==
  /\ Strip(line) # <<>>
  /\ Head(Strip(line)) = "EXECUTE:"
  /\ Contains(ToolPart(line), "(")
  /\ Contains(ToolPart(line), ")")

\* a line the loop returns from: the outer except clause prints the exception
\* the inner one let through, and the loop goes on with the next line
IsCallLine(line) ==
  /\ HasCallForm(line)
  /\ ParseParams(ParamsStr(ToolPart(line))).kind # "raised"

None == [found |-> FALSE]

\* the dict returned for the tool part of a call line
CallOf(tool_part) ==
  [found |-> TRUE,
   tool_name |-> Strip(SubSeq(tool_part, 1, First(tool_part, "(") - 1)),
   arguments |-> ParseParams(ParamsStr(tool_part))]

\* the first line of lines 1..n the loop returns from (0: none)
FirstCallLine(response_text) ==
  IF \E l \in 1..Len(response_text) : IsCallLine(response_text[l])
  THEN CHOOSE l \in 1..Len(response_text) :
         /\ IsCallLine(response_text[l])
         /\ \A k \in 1..(l - 1) : ~IsCallLine(response_text[k])
  ELSE 0

_extract_tool_call(response_text) ==
  IF FirstCallLine(response_text) = 0
  THEN None
  ELSE CallOf(ToolPart(response_text[FirstCallLine(response_text)]))

\* what _extract_tool_call prints: the exception of a line the loop went past
ExtractPrinted(response_text) ==
  IF \E l \in 1..Len(response_text) :
       /\ HasCallForm(response_text[l])
       /\ ~IsCallLine(response_text[l])
       /\ FirstCallLine(response_text) \in {0} \cup (l + 1)..Len(response_text)
  THEN {"Error parsing tool call"}
  ELSE {}

\* ------------------------------------------------------------------ routing
LastMessage(st) == st.messages[Len(st.messages)]

\* _should_execute_tool that looks for COMPLETE: before EXECUTE:
_should_execute_tool_complete_first(st) ==
  IF st.iteration >= st.max_iterations
  THEN "finish"
  ELSE IF TextContains(LastMessage(st).content, "COMPLETE:")
  THEN "finish"
  ELSE "execute"

\* _should_execute_tool without its test of the budget
_should_execute_tool_unbounded(st) ==
  IF TextContains(LastMessage(st).content, "EXECUTE:")
  THEN "execute"
  ELSE IF TextContains(LastMessage(st).content, "COMPLETE:")
  THEN "finish"
  ELSE "execute"

_should_execute_tool(st) ==
  IF st.iteration >= st.max_iterations
  THEN "finish"
  ELSE IF TextContains(LastMessage(st).content, "EXECUTE:")
  THEN "execute"
  ELSE IF TextContains(LastMessage(st).content, "COMPLETE:")
  THEN "finish"
  ELSE "execute"

\* _should_continue without its look at the executed-tool records
_should_continue_always(st) ==
  IF st.iteration >= st.max_iterations THEN "finish" ELSE "continue"

\* _should_continue without its test of the success flag
_should_continue_nonempty(st) ==
  IF st.iteration >= st.max_iterations
  THEN "finish"
  ELSE IF st.executed_tools # <<>> THEN "continue" ELSE "finish"

_should_continue(st) ==
  IF st.iteration >= st.max_iterations
  THEN "finish"
  ELSE IF st.executed_tools # <<>> /\ st.executed_tools[Len(st.executed_tools)].success
  THEN "continue"
  ELSE "finish"

\* ------------------------------------------------------------------ state
VARIABLES
  api_key,             \* GEMINI_API_KEY is set in the environment
  pc,                  \* websocket_feedback_loop: "connect", "receive", "run", "returned"
  node,                \* the workflow node to run next ("none" outside a run)
  active_connections,  \* WebSocketConnectionManager.active_connections (session ids)
  client_state,        \* websocket.client_state
  events,              \* messages given to send_message: the connection event, then
                       \* those of the command being handled
  delivered,           \* the messages send_text carried to the client in the latest step
  printed,             \* the lines the latest step printed to stdout (without str(e))
  command,             \* the arguments of execute_feedback_loop
  state,               \* the MCPState of the run
  tools,               \* LangGraphMCPExecutor.tools
  mcp_client,          \* LangGraphMCPExecutor.mcp_client
  faults,              \* what the environment did against the command being handled
  inbox,               \* the commands the client has sent that receive_text has not
                       \* returned yet (their action fields)
  status_reply         \* what GET /gemini/mcp-status answered, with the gateway it used

vars == << api_key, pc, node, active_connections, client_state, events, delivered,
           printed, command, state, tools, mcp_client, faults, inbox, status_reply >>

session_id == "sid"

NoState == EmptyDict

\* no status request has been answered
NoReply == EmptyDict

\* ------------------------------------------------------------------ WebSocketConnectionManager
\* send_message whose except clause leaves the registration in place
send_messages_keep(log, active, connected, msgs, failAt) ==
  LET can == session_id \in active /\ connected
  IN [events |-> log \o msgs,
      delivered |-> IF ~can THEN <<>> ELSE IF failAt = 0 THEN msgs ELSE SubSeq(msgs, 1, failAt - 1),
      active |-> active,
      printed |-> IF can /\ failAt > 0 THEN {"Error sending message"} ELSE {}]

\* send_message for each of msgs in turn on the registry `active` of a
\* channel that is connected or not; failAt is the send whose send_text raises
\* (0: none), which removes the registration.
send_messages(log, active, connected, msgs, failAt) ==
  LET can == session_id \in active /\ connected
  IN [events |-> log \o msgs,
      delivered |-> IF ~can THEN <<>> ELSE IF failAt = 0 THEN msgs ELSE SubSeq(msgs, 1, failAt - 1),
      active |-> IF can /\ failAt > 0 THEN active \ {session_id} ELSE active,
      printed |-> IF can /\ failAt > 0 THEN {"Error sending message"} ELSE {}]

\* the sends that can raise: none when send_message is a no-op or the fault
\* budget is spent
FailPoints(active, connected, n, budget) ==
  IF session_id \in active /\ connected /\ budget > 0 THEN 0..n ELSE {0}

Failed(failAt) == IF failAt > 0 THEN 1 ELSE 0

\* a disconnect that leaves the registration in place
disconnect_kept(active) == active

disconnect(active) == active \ {session_id}

\* the log kept when a new command is received: the connection event
KeptEvents == SubSeq(events, 1, 1)

\* ------------------------------------------------------------------ environment
Requests == {S("list all stores")}

Descriptor(name) == [name |-> S(name), description |-> S("description")]

\* what tools/list answers: a read-all and a data-mutating operation, or
\* descriptors of which one has no name
Catalogs ==
  { << Descriptor("get_all_stores"), Descriptor("create_store") >>,
    << Descriptor("get_all_stores"), [description |-> S("description")] >> }

Init ==
  /\ api_key \in BOOLEAN
  /\ pc = "connect"
  /\ node = "none"
  /\ active_connections = {}
  /\ client_state = "CONNECTING"
  /\ events = <<>>
  /\ delivered = <<>>
  /\ printed = {}
  /\ command = NoState
  /\ state = NoState
  /\ tools = <<>>
  /\ mcp_client = NewMCPClient
  /\ faults = 0
  /\ inbox = <<>>
  /\ status_reply = NoReply

\* ------------------------------------------------------------------ websocket_feedback_loop
\* a handler that would read the next command while a run is in progress
Receiving_any == pc \in {"receive", "run"}

\* the handler is at `data = await websocket.receive_text()`
Receiving == pc = "receive"

\* receive_text returns a command with this action field: the oldest one the
\* client sent while the handler was not receiving, or, when there is none,
\* one the client sends now.  The other fields of a command are drawn when it
\* is received.
Arrives(action) ==
  IF inbox = <<>> THEN inbox' = inbox ELSE Head(inbox) = action /\ inbox' = Tail(inbox)

\* receive_text returns something no command in flight holds: the client
\* sends it now, after every command it sent has been received
ArrivesNow == inbox = <<>> /\ inbox' = inbox

\* the commands a client sends while a run is in progress
InFlight == {"start_feedback_loop", "stop_feedback_loop"}

\* a handler that registers the session before it looks for the API key
ConnectNoKey_registered ==
  /\ pc = "connect" /\ ~api_key
  /\ UNCHANGED status_reply
  /\ client_state' = "DISCONNECTED"
  /\ active_connections' = {session_id}
  /\ pc' = "returned"
  /\ printed' = {}
  /\ UNCHANGED << api_key, node, events, delivered, command, state, tools,
                  mcp_client, faults, inbox >>

\* no API key: the socket is closed with code 1008 and the handler returns
ConnectNoKey ==
  /\ pc = "connect" /\ ~api_key
  /\ UNCHANGED status_reply
  /\ client_state' = "DISCONNECTED"
  /\ pc' = "returned"
  /\ printed' = {}
  /\ UNCHANGED << api_key, node, active_connections, events, delivered, command, state, tools,
                  mcp_client, faults, inbox >>

\* a connect that announces itself with the event of a stopped workflow
ConnectedEvent_stopped ==
  [type |-> "connection", message |-> S("LangGraph workflow stopped by user")]

\* the event connect sends on the channel it registered
ConnectedEvent == [type |-> "connection", status |-> "connected"]

\* connection_manager.connect: accept, register, send the connection event
Connect ==
  /\ pc = "connect" /\ api_key
  /\ UNCHANGED status_reply
  /\ \E failAt \in FailPoints({session_id}, TRUE, 1, MaxFaults - faults) :
       LET r == send_messages(events, active_connections \cup {session_id}, TRUE,
                              << ConnectedEvent >>, failAt)
       IN /\ events' = r.events
          /\ delivered' = r.delivered
          /\ printed' = r.printed
          /\ active_connections' = r.active
          /\ faults' = faults + Failed(failAt)
  /\ client_state' = "CONNECTED"
  /\ pc' = "receive"
  /\ UNCHANGED << api_key, node, command, state, tools, mcp_client, inbox >>

\* receive_text raises WebSocketDisconnect: the client has gone
ReceiveDisconnect ==
  /\ Receiving /\ ArrivesNow
  /\ UNCHANGED status_reply
  /\ client_state' = "DISCONNECTED"
  /\ active_connections' = disconnect(active_connections)
  /\ events' = KeptEvents
  /\ delivered' = <<>>
  /\ printed' = {}
  /\ faults' = 0
  /\ pc' = "returned"
  /\ UNCHANGED << api_key, node, command, state, tools, mcp_client >>

\* json.loads(data) raises (or the message is no object): error event, disconnect
ReceiveInvalid ==
  /\ Receiving /\ ArrivesNow
  /\ UNCHANGED status_reply
  /\ \E failAt \in FailPoints(active_connections, client_state = "CONNECTED", 1, MaxFaults) :
       LET r == send_messages(KeptEvents, active_connections,
                              client_state = "CONNECTED",
                              << [type |-> "error", message |-> S("WebSocket error")] >>, failAt)
       IN /\ events' = r.events
          /\ delivered' = r.delivered
          /\ printed' = r.printed
          /\ active_connections' = disconnect(r.active)
          /\ faults' = Failed(failAt)
  /\ pc' = "returned"
  /\ UNCHANGED << api_key, node, client_state, command, state, tools, mcp_client >>

\* an action that is neither start_feedback_loop nor stop_feedback_loop
ReceiveOther ==
  /\ Receiving /\ ArrivesNow
  /\ UNCHANGED status_reply
  /\ events' = KeptEvents
  /\ delivered' = <<>>
  /\ printed' = {}
  /\ faults' = 0
  /\ UNCHANGED << api_key, pc, node, active_connections, client_state, command, state,
                  tools, mcp_client >>

\* start_feedback_loop with an empty request: error event, continue
ReceiveStartEmpty ==
  /\ Receiving /\ Arrives("start_feedback_loop")
  /\ UNCHANGED status_reply
  /\ \E failAt \in FailPoints(active_connections, client_state = "CONNECTED", 1, MaxFaults) :
       LET r == send_messages(KeptEvents, active_connections,
                              client_state = "CONNECTED",
                              << [type |-> "error", message |-> S("Request is required")] >>, failAt)
       IN /\ events' = r.events
          /\ delivered' = r.delivered
          /\ printed' = r.printed
          /\ active_connections' = r.active
          /\ faults' = Failed(failAt)
  /\ UNCHANGED << api_key, pc, node, client_state, command, state, tools, mcp_client >>

\* stop_feedback_loop: connection event, break
ReceiveStop ==
  /\ Receiving
  /\ UNCHANGED status_reply
  /\ inbox # <<>> => Head(inbox) = "stop_feedback_loop"
  /\ inbox' = <<>>
  /\ \E failAt \in FailPoints(active_connections, client_state = "CONNECTED", 1, MaxFaults) :
       LET r == send_messages(KeptEvents, active_connections,
                              client_state = "CONNECTED",
                              << [type |-> "connection", message |-> S("LangGraph workflow stopped by user")] >>,
                              failAt)
       IN /\ events' = r.events
          /\ delivered' = r.delivered
          /\ printed' = r.printed
          /\ active_connections' = r.active
          /\ faults' = Failed(failAt)
  /\ pc' = "returned"
  /\ UNCHANGED << api_key, node, client_state, command, state, tools, mcp_client >>

\* ------------------------------------------------------------------ Reasoning Client
PlanTools == {"get_all_stores", "create_store"}

\* the texts generate_content answers with in analyze_and_plan
AnalysisReplies ==
  { << <<"EXECUTE:", t, "(", "{}", ")">> >> : t \in PlanTools }
  \cup
  { << <<"COMPLETE:", "done">> >>,
    << <<"COMPLETE:", "done">>, <<"EXECUTE:", "no_such_tool", "(", "{k:v}", ")">> >>,
    << <<"EXECUTE:", "get_all_stores", "(", "[1]", ")">> >>,
    << <<"EXECUTE:", "get_all_stores", "(", "[[[[", ")">> >>,
    <<>> }

AIMessage(content) == [role |-> "ai", content |-> content]

\* ------------------------------------------------------------------ execute_feedback_loop
initial_state(request, max_iterations, the_tools) ==
  [ messages |-> << [role |-> "human", content |-> << request >>] >>,
    system_context |-> EmptyDict,
    available_tools |-> [i \in 1..Len(the_tools) |->
                           [name |-> the_tools[i].name, description |-> the_tools[i].description]],
    current_request |-> request,
    iteration |-> 0,
    max_iterations |-> max_iterations,
    executed_tools |-> <<>>,
    session_id |-> session_id ]

\* MCPToolWrapper(mcp_client, tool_info) reads tool_info["name"]: KeyError
WrapperRaises(mcp_tools) == \E i \in 1..Len(mcp_tools) : "name" \notin DOMAIN mcp_tools[i]

\* start_feedback_loop with a request: a new executor, whose
\* execute_feedback_loop sends the workflow start event
ReceiveStart ==
  /\ Receiving /\ Arrives("start_feedback_loop")
  /\ UNCHANGED status_reply
  /\ \E request \in Requests, max_iterations \in 0..MaxIter :
       /\ command' = [initial_request |-> request, max_iterations |-> max_iterations]
       /\ \E failAt \in FailPoints(active_connections, client_state = "CONNECTED", 1, MaxFaults) :
            LET r == send_messages(KeptEvents, active_connections, client_state = "CONNECTED",
                                   << [type |-> "langgraph_workflow_start",
                                       max_iterations |-> max_iterations] >>, failAt)
            IN /\ events' = r.events
               /\ delivered' = r.delivered
               /\ printed' = r.printed
               /\ active_connections' = r.active
               /\ faults' = Failed(failAt)
  /\ mcp_client' = NewMCPClient
  /\ tools' = <<>>
  /\ state' = NoState
  /\ pc' = "run"
  /\ node' = "initialize_workflow"
  /\ UNCHANGED << api_key, client_state >>

\* ------------------------------------------------------------------ workflow nodes
\* the sends of one step; drop: the endpoint disconnects the session after
\* them; lines: what the gateway printed in the step
EmitThen(msgs, used, drop, lines) ==
  \E failAt \in FailPoints(active_connections, client_state = "CONNECTED",
                           Len(msgs), MaxFaults - faults - used) :
    LET r == send_messages(events, active_connections,
                           client_state = "CONNECTED", msgs, failAt)
    IN /\ events' = r.events
       /\ delivered' = r.delivered
       /\ printed' = lines \cup r.printed
       /\ active_connections' = IF drop THEN disconnect(r.active) ELSE r.active
       /\ faults' = faults + used + Failed(failAt)

\* what every node does with the channel
Emit(msgs, used) == EmitThen(msgs, used, FALSE, {})

\* the event of the endpoint's except clause, when execute_feedback_loop raised
WebSocketError == [type |-> "error", message |-> S("WebSocket error")]

\* initialize_workflow (tools/list, the tool wrappers) and the initial state
\* given to ainvoke.  When building the wrappers raises, execute_feedback_loop
\* sends an error event, closes the gateway and returns to the endpoint.
initialize_workflow ==
  /\ pc = "run" /\ node = "initialize_workflow"
  /\ UNCHANGED status_reply
  /\ \E catalog \in Catalogs, outcome \in {"ok"} \cup Failures :
       LET lt == list_tools(mcp_client, FALSE, outcome, catalog)
       IN /\ faults + Used(FALSE, outcome) <= MaxFaults
          /\ IF WrapperRaises(lt.tools)
             THEN \E exited \in BOOLEAN :
                    LET cl == close(lt.client, exited)
                        used == Used(exited, outcome)
                        failure == [type |-> "error", message |-> S("LangGraph workflow error")]
                    IN /\ faults + used <= MaxFaults
                       /\ IF cl.raised
                          THEN /\ EmitThen(<< failure, WebSocketError >>, used, TRUE, lt.printed)
                               /\ pc' = "returned"
                               /\ inbox' = <<>>
                          ELSE /\ EmitThen(<< failure >>, used, FALSE, lt.printed)
                               /\ pc' = "receive"
                               /\ inbox' = inbox
                       /\ mcp_client' = cl.client
                       /\ command' = NoState
                       /\ node' = "none"
                       /\ UNCHANGED << state, tools >>
             ELSE /\ EmitThen(<<>>, Used(FALSE, outcome), FALSE, lt.printed)
                  /\ mcp_client' = lt.client
                  /\ tools' = lt.tools
                  /\ state' = initial_state(command.initial_request, command.max_iterations, lt.tools)
                  /\ node' = "initialize"
                  /\ UNCHANGED << pc, command, inbox >>
  /\ UNCHANGED << api_key, client_state >>

_initialize_node ==
  /\ pc = "run" /\ node = "initialize"
  /\ UNCHANGED status_reply
  /\ state' = [state EXCEPT !.system_context = get_system_context,
                            !.iteration = 0,
                            !.messages = Append(@, AIMessage(<< S("Workflow initialized") >>))]
  /\ Emit(<< [type |-> "workflow_node", node |-> "initialize"],
             [type |-> "system_context", available_tools |-> Len(state.available_tools),
              system_summary |-> get_system_context.total_counts] >>, 0)
  /\ node' = "analyze_and_plan"
  /\ UNCHANGED << api_key, pc, client_state, command, tools, mcp_client, inbox >>

\* the state after _handle_error, and its event
HandleErrorState(st, error_msg) == [st EXCEPT !.messages = Append(@, AIMessage(<< error_msg >>))]

\* the event of _handle_error under the type of a progress event
HandleErrorEvent_untyped(st, error_msg) ==
  [type |-> "workflow_node", node |-> "error", iteration |-> st.iteration, message |-> error_msg]

\* the event of _handle_error without the number of the iteration
HandleErrorEvent_plain(st, error_msg) ==
  [type |-> "error", message |-> error_msg]

HandleErrorEvent(st, error_msg) ==
  [type |-> "error", iteration |-> st.iteration, message |-> error_msg]

\* analyze_and_plan announcing the node before the iteration
AnalyzeEvents_late(st, last) ==
  << [type |-> "workflow_node", node |-> "analyze_and_plan", iteration |-> st.iteration],
     [type |-> "iteration_start", iteration |-> st.iteration,
      max_iterations |-> st.max_iterations],
     last >>

\* the events of analyze_and_plan; last: gemini_analysis, or the event of
\* _handle_error
AnalyzeEvents(st, last) ==
  << [type |-> "iteration_start", iteration |-> st.iteration,
      max_iterations |-> st.max_iterations],
     [type |-> "workflow_node", node |-> "analyze_and_plan", iteration |-> st.iteration],
     last >>

\* analyze_and_plan and the conditional edge _should_execute_tool after it.
\* failed: generate_content raised.
_analyze_and_plan_node ==
  /\ pc = "run" /\ node = "analyze_and_plan"
  /\ UNCHANGED status_reply
  /\ \E reply \in AnalysisReplies, failed \in BOOLEAN :
       LET st1 == [state EXCEPT !.iteration = @ + 1]
           analysis_content == IF reply # <<>> THEN reply ELSE << S("No analysis generated") >>
           st2 == IF failed
                  THEN HandleErrorState(st1, S("Analysis error"))
                  ELSE [st1 EXCEPT !.messages = Append(@, AIMessage(analysis_content))]
           last == IF failed
                   THEN HandleErrorEvent(st1, S("Analysis error"))
                   ELSE [type |-> "gemini_analysis", iteration |-> st1.iteration]
       IN /\ failed => reply = <<>>
          /\ state' = st2
          /\ Emit(AnalyzeEvents(st1, last), 0)
          /\ node' = IF _should_execute_tool(st2) = "execute" THEN "execute_tool" ELSE "finalize"
  /\ UNCHANGED << api_key, pc, client_state, command, tools, mcp_client, inbox >>

\* the execution of a tool without the lookup in the catalog
ToolFound_any(tool_name) == TRUE

\* next(t for t in self.tools if t.name == tool_name, None) finds a tool
ToolFound(tool_name) == \E i \in 1..Len(tools) : tools[i].name = tool_name

\* the test of success without lower()
Success_cased(result) == ~Contains(result, "Error")

\* success = "error" not in result.lower()
Success(result) == ~Contains(Lower(result), "error")

\* _execute_single_tool keeping only the record of the last execution
ExecuteFound_latest(st, c, tool_call, exited, outcome) ==
  LET r == call_tool(c, tool_call.tool_name, exited, outcome)
      result == JsonDumps(r.result)
      execution_record == [ iteration |-> st.iteration,
                            tool_name |-> tool_call.tool_name,
                            arguments |-> tool_call.arguments.value,
                            result |-> result,
                            success |-> Success(result) ]
  IN [client |-> r.client,
      printed |-> r.printed,
      state |-> [st EXCEPT !.executed_tools = << execution_record >>,
                           !.messages = Append(@, [role |-> "tool", content |-> << result >>])],
      event |-> [type |-> "tool_execution_result", iteration |-> st.iteration,
                 tool_name |-> tool_call.tool_name, success |-> Success(result)]]

\* _execute_single_tool with a tool that was found and arguments that are a
\* mapping: the gateway and the state after it, and the result event
ExecuteFound(st, c, tool_call, exited, outcome) ==
  LET r == call_tool(c, tool_call.tool_name, exited, outcome)
      result == JsonDumps(r.result)
      execution_record == [ iteration |-> st.iteration,
                            tool_name |-> tool_call.tool_name,
                            arguments |-> tool_call.arguments.value,
                            result |-> result,
                            success |-> Success(result) ]
  IN [client |-> r.client,
      printed |-> r.printed,
      state |-> [st EXCEPT !.executed_tools = Append(@, execution_record),
                           !.messages = Append(@, [role |-> "tool", content |-> << result >>])],
      event |-> [type |-> "tool_execution_result", iteration |-> st.iteration,
                 tool_name |-> tool_call.tool_name, success |-> Success(result)]]

\* execute_tool for the call _extract_tool_call returned
ExecuteCall(tool_call) ==
  IF ~tool_call.found
  THEN /\ EmitThen(<< [type |-> "workflow_node", node |-> "execute_tool",
                   iteration |-> state.iteration] >>, 0, FALSE,
                   ExtractPrinted(LastMessage(state).content))
       /\ UNCHANGED << state, mcp_client >>
  ELSE IF ~ToolFound(tool_call.tool_name)
  THEN /\ state' = HandleErrorState(state, S("Tool not found"))
       /\ EmitThen(<< [type |-> "workflow_node", node |-> "execute_tool",
                   iteration |-> state.iteration],
                  [type |-> "tool_execution_start", iteration |-> state.iteration,
                   tool_name |-> tool_call.tool_name],
                  HandleErrorEvent(state, S("Tool not found")) >>, 0, FALSE,
                   ExtractPrinted(LastMessage(state).content))
       /\ UNCHANGED mcp_client
  ELSE IF tool_call.arguments.kind # "dict"
  THEN /\ state' = HandleErrorState(state, S("Tool execution error"))
       /\ EmitThen(<< [type |-> "workflow_node", node |-> "execute_tool",
                   iteration |-> state.iteration],
                  [type |-> "tool_execution_start", iteration |-> state.iteration,
                   tool_name |-> tool_call.tool_name],
                  HandleErrorEvent(state, S("Tool execution error")) >>, 0, FALSE,
                   ExtractPrinted(LastMessage(state).content))
       /\ UNCHANGED mcp_client
  ELSE \E exited \in BOOLEAN, outcome \in {"ok", "errtext"} \cup Failures :
         /\ exited => mcp_client.process \in mcp_client.live
         /\ faults + Used(exited, outcome) <= MaxFaults
         /\ state' = ExecuteFound(state, mcp_client, tool_call, exited, outcome).state
         /\ mcp_client' = ExecuteFound(state, mcp_client, tool_call, exited, outcome).client
         /\ EmitThen(<< [type |-> "workflow_node", node |-> "execute_tool",
                         iteration |-> state.iteration],
                        [type |-> "tool_execution_start", iteration |-> state.iteration,
                         tool_name |-> tool_call.tool_name],
                        ExecuteFound(state, mcp_client, tool_call, exited, outcome).event >>,
                     Used(exited, outcome), FALSE,
                     ExecuteFound(state, mcp_client, tool_call, exited, outcome).printed
                       \cup ExtractPrinted(LastMessage(state).content))

_execute_tool_node ==
  /\ pc = "run" /\ node = "execute_tool"
  /\ UNCHANGED status_reply
  /\ ExecuteCall(_extract_tool_call(LastMessage(state).content))
  /\ node' = "update_context"
  /\ UNCHANGED << api_key, pc, client_state, command, tools, inbox >>

\* what the three calls of a refresh cost of the budget of environment failures
UsedAll(outs) == Used(FALSE, outs[1]) + Used(FALSE, outs[2]) + Used(FALSE, outs[3])

\* the state update_context returns: the refreshed context (when there is
\* one) and the message of the node
Updated(st, context, text) ==
  [st EXCEPT !.system_context = context,
             !.messages = Append(@, AIMessage(<< S(text) >>))]

\* a workflow that is abandoned once its session has been dropped
AfterUpdate_cancelled(st) ==
  IF session_id \notin active_connections
  THEN "none"
  ELSE IF _should_continue(st) = "continue" THEN "analyze_and_plan" ELSE "finalize"

\* the conditional edge after update_context
AfterUpdate(st) == IF _should_continue(st) = "continue" THEN "analyze_and_plan" ELSE "finalize"

\* update_context when it refreshes; u: what get_full_system_context returned
RefreshWith(u, used) ==
  /\ state' = Updated(state, u.context, "System context updated")
  /\ mcp_client' = u.client
  /\ EmitThen(<< [type |-> "workflow_node", node |-> "update_context",
                  iteration |-> state.iteration],
                 [type |-> "system_update", iteration |-> state.iteration,
                  updated_context |-> Get(u.context, "total_counts", EmptyDict)] >>,
              used, FALSE, u.printed)
  /\ node' = AfterUpdate(Updated(state, u.context, "System context updated"))

\* an update_context that refreshes after a data-mutating operation whether or
\* not the context was loaded
Refreshes_unloaded(st) ==
  /\ st.executed_tools # <<>>
  /\ st.executed_tools[Len(st.executed_tools)].tool_name
       \in context_loading_tools \cup data_modifying_tools

\* if state["executed_tools"]: the last record names a read-all operation, or
\* a data-mutating one while context_loaded is set
Refreshes(st) ==
  /\ st.executed_tools # <<>>
  /\ \/ st.executed_tools[Len(st.executed_tools)].tool_name \in context_loading_tools
     \/ /\ st.executed_tools[Len(st.executed_tools)].tool_name \in data_modifying_tools
        /\ Get(st.system_context, "context_loaded", FALSE)

\* update_context and the conditional edge _should_continue after it
_update_context_node ==
  /\ pc = "run" /\ node = "update_context"
  /\ UNCHANGED status_reply
  /\ IF Refreshes(state)
     THEN \E outs \in [1..3 -> {"ok", "malformed", "nondict"} \cup Failures] :
            /\ faults + UsedAll(outs) <= MaxFaults
            /\ RefreshWith(get_full_system_context(mcp_client, FALSE, outs), UsedAll(outs))
     ELSE /\ state' = Updated(state, state.system_context, "System context update skipped")
          /\ Emit(<< [type |-> "workflow_node", node |-> "update_context",
                      iteration |-> state.iteration],
                     [type |-> "context_update_skipped", iteration |-> state.iteration] >>, 0)
          /\ node' = AfterUpdate(Updated(state, state.system_context,
                                         "System context update skipped"))
          /\ UNCHANGED mcp_client
  /\ UNCHANGED << api_key, pc, client_state, command, tools, inbox >>

\* the complete event reporting the budget in place of the iteration counter
CompleteEvent_budget(type, st) ==
  [ type |-> type,
    total_iterations |-> st.max_iterations,
    tools_executed |-> Len(st.executed_tools),
    successful_tools |-> Cardinality({i \in 1..Len(st.executed_tools) : st.executed_tools[i].success}) ]

\* a completion event that counts every executed tool as successful
CompleteEvent_attempts(type, st) ==
  [ type |-> type,
    total_iterations |-> st.iteration,
    tools_executed |-> Len(st.executed_tools),
    successful_tools |-> Len(st.executed_tools) ]

\* the feedback_loop_complete event of a state
CompleteEvent(type, st) ==
  [ type |-> type,
    total_iterations |-> st.iteration,
    tools_executed |-> Len(st.executed_tools),
    successful_tools |-> Cardinality({i \in 1..Len(st.executed_tools) : st.executed_tools[i].success}) ]

\* _generate_summary: the text, or the error string when generate_content raised
_generate_summary(reply, failed) ==
  IF failed THEN S("Error generating summary")
  ELSE IF reply # <<>> THEN reply ELSE S("Summary generation failed")

\* the workflow complete event sent before the events of finalize
RunEvents_early(st, final_state, summary) ==
  << CompleteEvent("langgraph_workflow_complete", final_state),
     [type |-> "workflow_node", node |-> "finalize", iteration |-> st.iteration],
     CompleteEvent("feedback_loop_complete", st) @@ ("summary" :> summary) >>

\* the events of finalize, then the workflow complete event of
\* execute_feedback_loop for the state ainvoke returned
RunEvents(st, final_state, summary) ==
  << [type |-> "workflow_node", node |-> "finalize", iteration |-> st.iteration],
     CompleteEvent("feedback_loop_complete", st) @@ ("summary" :> summary),
     CompleteEvent("langgraph_workflow_complete", final_state) >>

\* finalize, after which ainvoke returns to execute_feedback_loop: the summary
\* message and the feedback_loop_complete event; then the workflow complete
\* event of the final state and the gateway is closed.  When close raises, the
\* endpoint reports it and drops the session; otherwise it reads the next
\* command.  failed: generate_content raised.
_finalize_node ==
  /\ pc = "run" /\ node = "finalize"
  /\ UNCHANGED status_reply
  /\ \E reply \in {S("summary")}, failed \in BOOLEAN, exited \in BOOLEAN :
       LET final_state == [state EXCEPT !.messages =
                             Append(@, AIMessage(<< _generate_summary(reply, failed) >>))]
           sent == RunEvents(state, final_state, _generate_summary(reply, failed))
           cl == close(mcp_client, exited)
           used == Used(exited, "ok")
       IN /\ exited => mcp_client.process \in mcp_client.live
          /\ faults + used <= MaxFaults
          /\ IF cl.raised
             THEN /\ EmitThen(sent \o << WebSocketError >>, used, TRUE, {})
                  /\ pc' = "returned"
                  /\ inbox' = <<>>
             ELSE /\ Emit(sent, used)
                  /\ pc' = "receive"
                  /\ inbox' = inbox
          /\ mcp_client' = cl.client
  /\ state' = NoState
  /\ command' = NoState
  /\ node' = "none"
  /\ UNCHANGED << api_key, client_state, tools >>

\* ------------------------------------------------------------------ client
\* The client sends a command while a run is in progress: the handler is not
\* receiving, and the command waits in the socket.  The client has one
\* command in flight at a time.
ClientSends ==
  /\ pc = "run" /\ inbox = <<>>
  /\ UNCHANGED status_reply
  /\ faults < MaxFaults
  /\ faults' = faults + 1
  /\ \E action \in InFlight : inbox' = << action >>
  /\ delivered' = <<>>
  /\ printed' = {}
  /\ UNCHANGED << api_key, pc, node, active_connections, client_state, events, command,
                  state, tools, mcp_client >>

\* ------------------------------------------------------------------ get_mcp_status
\* the comprehension of the reply reads t["name"] and t["description"]: KeyError
DescriptorRaises(mcp_tools) ==
  \E i \in 1..Len(mcp_tools) : {"name", "description"} \ DOMAIN mcp_tools[i] # {}

\* the reply of the try block for what list_tools returned
StatusOf(lt) ==
  IF DescriptorRaises(lt.tools)
  THEN [status |-> "error", message |-> S("Could not connect to MCP server")]
  ELSE [status |-> "connected", available_tools |-> Len(lt.tools)]

\* GET /gemini/mcp-status: a gateway of its own, tools/list, the reply, close
\* in the finally clause.  When close raises, its exception replaces the reply
\* and the request fails.  The endpoint shares nothing with a session and
\* sends nothing to it; a request is taken once the handler of the session
\* has returned.
get_mcp_status ==
  /\ pc = "returned" /\ status_reply = NoReply
  /\ \E catalog \in Catalogs, outcome \in {"ok"} \cup Failures, exited \in BOOLEAN :
       LET lt == list_tools(NewMCPClient, FALSE, outcome, catalog)
           cl == close(lt.client, exited)
       IN /\ exited => lt.client.process \in lt.client.live
          /\ status_reply' =
               [ reply |-> IF cl.raised THEN [status |-> "failed"]
                           ELSE StatusOf(lt),
                 reached |-> outcome = "ok",
                 client |-> cl.client ]
          /\ printed' = lt.printed
  /\ delivered' = <<>>
  /\ UNCHANGED << api_key, pc, node, active_connections, client_state, events,
                  command, state, tools, mcp_client, faults, inbox >>

\* ------------------------------------------------------------------ specification
Next ==
  \/ ConnectNoKey
  \/ Connect
  \/ ReceiveDisconnect
  \/ ReceiveInvalid
  \/ ReceiveOther
  \/ ReceiveStartEmpty
  \/ ReceiveStop
  \/ ReceiveStart
  \/ initialize_workflow
  \/ _initialize_node
  \/ _analyze_and_plan_node
  \/ _execute_tool_node
  \/ _update_context_node
  \/ _finalize_node
  \/ ClientSends
  \/ get_mcp_status

Spec == Init /\ [][Next]_vars

\* ------------------------------------------------------------------ the event log
\* the positions of the log that hold an event of a type
Positions(type) == {i \in 1..Len(events) : events[i].type = type}

\* the positions of the workflow_node events of a node: its visits
Visits(n) == {i \in Positions("workflow_node") : events[i].node = n}

\* a command started a run whose events the log holds
RunStarted == Positions("langgraph_workflow_start") # {}

\* the max_iterations the run was started with
RunBudget == events[CHOOSE i \in Positions("langgraph_workflow_start") : TRUE].max_iterations

\* ------------------------------------------------------------------ C1
\* C1: in a run started with max_iterations = N >= 1, analyze_and_plan is
\* visited at most N times, and the total_iterations of the
\* feedback_loop_complete event is the number of analyze_and_plan visits.
C1_IterationBudget ==
  RunStarted =>
    /\ RunBudget >= 1 => Cardinality(Visits("analyze_and_plan")) <= RunBudget
    /\ \A i \in Positions("feedback_loop_complete") :
         events[i].total_iterations = Cardinality(Visits("analyze_and_plan"))

\* a run that used its whole budget of at least two iterations has completed
C1_Witness ==
  /\ RunStarted /\ RunBudget >= 2
  /\ \E i \in Positions("feedback_loop_complete") : events[i].total_iterations = RunBudget

\* ------------------------------------------------------------------ C2
\* the most recent executed-tool record of the run
LastRecord == state.executed_tools[Len(state.executed_tools)]

\* the run is back at analyze_and_plan after an update_context visit
Returned == pc = "run" /\ node = "analyze_and_plan" /\ state.iteration >= 1

\* the run is at finalize, sent there by the routing after update_context
Finishing ==
  /\ pc = "run" /\ node = "finalize"
  /\ events[Len(events)].type \in {"system_update", "context_update_skipped"}

\* C2 as stated: after update_context the run goes to finalize whenever the
\* current iteration executed no tool or a tool that failed, in every
\* iteration; so a run that is back at analyze_and_plan has a successful
\* record of the iteration it comes from.
C2_FinishUnlessExecutedNow ==
  Returned =>
    \E k \in 1..Len(state.executed_tools) :
      /\ state.executed_tools[k].iteration = state.iteration
      /\ state.executed_tools[k].success

\* C2 amended: the routing after update_context reads the most recent record
\* of the whole run.  The run returns to analyze_and_plan only when the
\* iteration is below the budget, a record exists and the most recent one
\* succeeded; an iteration that executed a tool that failed never returns; and
\* below the budget the run goes to finalize only when no record exists or the
\* most recent one failed.
C2_FinishUnlessLastRecordSucceeded ==
  /\ Returned =>
       /\ state.iteration < state.max_iterations
       /\ state.executed_tools # <<>> /\ LastRecord.success
       /\ \A k \in 1..Len(state.executed_tools) :
            state.executed_tools[k].iteration = state.iteration => state.executed_tools[k].success
  /\ (Finishing /\ state.iteration < state.max_iterations) =>
       (state.executed_tools = <<>> \/ ~LastRecord.success)

\* a second iteration below the budget executed a tool that failed and the run
\* was sent to finalize
C2_Witness ==
  /\ Finishing
  /\ state.iteration >= 2 /\ state.iteration < state.max_iterations
  /\ state.executed_tools # <<>>
  /\ LastRecord.iteration = state.iteration /\ ~LastRecord.success

\* ------------------------------------------------------------------ C3
\* the first tool_execution_result event of the run
FirstResult ==
  events[CHOOSE i \in Positions("tool_execution_result") :
           \A j \in Positions("tool_execution_result") : i <= j]

FirstExecutionFailed ==
  RunStarted /\ Positions("tool_execution_result") # {} /\ ~FirstResult.success

\* every position of the first set is before every position of the second
Before(ps, qs) == \A i \in ps, j \in qs : i < j

\* C3: a run whose first tool execution is recorded with success = false
\* visits analyze_and_plan once, visits update_context once and goes from there
\* to finalize, which emits feedback_loop_complete.
C3_FailedFirstExecutionEndsRun ==
  FirstExecutionFailed =>
    /\ Cardinality(Visits("analyze_and_plan")) = 1
    /\ Cardinality(Visits("update_context")) <= 1
    /\ IF Visits("update_context") = {}
       THEN pc = "run" /\ node = "update_context"
       ELSE \/ pc = "run" /\ node = "finalize" /\ Visits("finalize") = {}
            \/ /\ pc # "run"
               /\ Cardinality(Visits("finalize")) = 1
               /\ Cardinality(Positions("feedback_loop_complete")) = 1
               /\ Before(Visits("update_context"), Visits("finalize"))
               /\ Before(Visits("finalize"), Positions("feedback_loop_complete"))

\* a run with a budget of two or more completed after its first execution failed
C3_Witness ==
  /\ FirstExecutionFailed /\ RunBudget >= 2
  /\ Positions("feedback_loop_complete") # {}

\* ------------------------------------------------------------------ C4
\* the execute_tool visit that just ended made a tools/call round trip that
\* failed: its record holds a result with an error field
LastCallFailed ==
  /\ pc = "run" /\ node = "update_context"
  /\ state.executed_tools # <<>>
  /\ LastRecord.iteration = state.iteration
  /\ LastRecord.result[2] = "error"

\* C4: when send_request fails (no response line, a top-level error field, a
\* response that is not JSON) the subprocess is terminated and the process
\* handle of the gateway is cleared, so that the next request spawns a fresh
\* subprocess.
C4_FailedRequestClearsHandle ==
  LastCallFailed =>
    /\ mcp_client.process = 0
    /\ mcp_client.live = {}
    /\ LET n == send_request(mcp_client, "tools/call", FALSE, "ok", EmptyDict)
       IN /\ n.client.process = mcp_client.spawned + 1
          /\ n.client.live = {n.client.process}

\* ------------------------------------------------------------------ C5
\* a round trip of the step failed: send_request printed its message
RequestFailed == "Error communicating with MCP server" \in printed'

\* C5: call_tool does not raise when the request fails; the execute_tool visit
\* whose round trip failed appends a record of that call whose result carries
\* the error field and whose success is false, and the run goes on to
\* update_context.
C5_FailedCallIsRecorded ==
  [][ (pc = "run" /\ node = "execute_tool" /\ RequestFailed) =>
        /\ pc' = "run" /\ node' = "update_context"
        /\ Len(state'.executed_tools) = Len(state.executed_tools) + 1
        /\ LET record == state'.executed_tools[Len(state'.executed_tools)]
           IN /\ record.iteration = state.iteration
              /\ record.result[2] = "error"
              /\ ~record.success
        /\ events'[Len(events')].type = "tool_execution_result"
        /\ ~events'[Len(events')].success ]_vars

\* a failed round trip was recorded and the run is at update_context
C5_Witness == LastCallFailed /\ ~LastRecord.success /\ mcp_client.process = 0

\* ------------------------------------------------------------------ C6
\* the run the log holds went past initialize_workflow without tools: every
\* catalog the subprocess answers with has a tool, so tools/list failed
ListFailed ==
  /\ RunStarted
  /\ tools = <<>>
  /\ \/ pc = "run" /\ node # "initialize_workflow"
     \/ Visits("initialize") # {}

\* C6: when tools/list fails, list_tools returns an empty list and the run is
\* not aborted: it goes through initialize and analyze_and_plan with an empty
\* catalog, executes no tool, and finalize emits feedback_loop_complete with
\* tools_executed = 0.
C6_ListFailureIsNotFatal ==
  /\ [][ (pc = "run" /\ node = "initialize_workflow" /\ RequestFailed) =>
           /\ pc' = "run" /\ node' = "initialize"
           /\ tools' = <<>>
           /\ state'.available_tools = <<>>
           /\ events' = events ]_vars
  /\ [](ListFailed =>
         /\ \A i \in Positions("error") : events[i].message # S("LangGraph workflow error")
         /\ \A i \in Positions("system_context") : events[i].available_tools = 0
         /\ Positions("tool_execution_result") = {}
         /\ \A i \in Positions("feedback_loop_complete") : events[i].tools_executed = 0
         /\ IF pc = "run"
            THEN /\ state.available_tools = <<>> /\ state.executed_tools = <<>>
                 /\ node \in {"initialize", "analyze_and_plan", "execute_tool",
                               "update_context", "finalize"}
                 /\ Positions("feedback_loop_complete") = {}
            ELSE /\ Cardinality(Visits("initialize")) = 1
                 /\ Visits("analyze_and_plan") # {}
                 /\ Cardinality(Visits("finalize")) = 1
                 /\ Cardinality(Positions("feedback_loop_complete")) = 1)

\* a run without tools planned a tool, did not find it, and completed
C6_Witness ==
  /\ ListFailed
  /\ Positions("tool_execution_start") # {}
  /\ \E i \in Positions("feedback_loop_complete") : events[i].tools_executed = 0

\* ------------------------------------------------------------------ C7
\* the three collections in the order get_full_system_context loads them, and
\* the operation that lists each
Collections == << "stores", "main_stores", "orders" >>

RefreshTool ==
  [stores |-> S("get_all_stores"), main_stores |-> S("get_all_main_stores"),
   orders |-> S("get_all_orders")]

\* the entities a collection holds when its result is a well-formed payload
Loaded(key) ==
  Get(JsonLoads(ToolText(RefreshTool[key], "ok")).value,
      IF key # "orders" THEN "stores" ELSE "orders", <<>>)

\* the step is an update_context visit that refreshed the snapshot
RefreshStep ==
  /\ pc = "run" /\ node = "update_context"
  /\ events'[Len(events')].type = "system_update"

\* what the subprocess can do with the three calls of a refresh
RefreshOutcomes == [1..3 -> {"ok", "malformed", "nondict"} \cup Failures]

Emptied(outs) ==
  LET aborted(k) == \E j \in 1..k : outs[j] = "nondict"
      held(k) == IF outs[k] = "ok" /\ ~aborted(k) THEN Loaded(Collections[k]) ELSE <<>>
      snapshot == [get_system_context EXCEPT
                     !.context_loaded = TRUE,
                     !.stores = held(1), !.main_stores = held(2), !.orders = held(3),
                     !.total_counts = [stores |-> Len(held(1)), main_stores |-> Len(held(2)),
                                       orders |-> Len(held(3))]]
  IN IF aborted(3) THEN snapshot @@ ("error" :> S("AttributeError")) ELSE snapshot

\* get_full_system_context returns the described snapshot for every outcome
RefreshAsDescribed ==
  \A outs \in RefreshOutcomes :
    get_full_system_context(NewMCPClient, FALSE, outs).context = Emptied(outs)

\* the described snapshots of the outcomes that n environment failures allow
Described ==
  [n \in 0..MaxFaults |-> {Emptied(outs) : outs \in {o \in RefreshOutcomes : UsedAll(o) <= n}}]

Connected == session_id \in active_connections /\ client_state = "CONNECTED"

\* no send_text of the step raised
SendsSucceeded == "Error sending message" \notin printed'

\* the step delivered an event of type error with a message
ErrorDelivered(message) ==
  \E i \in 1..Len(delivered') :
    delivered'[i].type = "error" /\ delivered'[i].message = message

\* the step delivered an event of a type
Delivered(type) == \E i \in 1..Len(delivered') : delivered'[i].type = type

\* the failing steps of a run: the tools/list call, a tools/call round trip,
\* the Reasoning Client call in analyze_and_plan and in finalize, the lookup
\* of the tool name of the plan
ListFails == pc = "run" /\ node = "initialize_workflow" /\ RequestFailed

CallFails == pc = "run" /\ node \in {"execute_tool", "update_context"} /\ RequestFailed

AnalysisFails ==
  /\ pc = "run" /\ node = "analyze_and_plan"
  /\ LastMessage(state').content = << S("Analysis error") >>

SummaryFails ==
  /\ pc = "run" /\ node = "finalize"
  /\ \E i \in 1..Len(events') :
       /\ events'[i].type = "feedback_loop_complete"
       /\ events'[i].summary = S("Error generating summary")

LookupFails ==
  /\ pc = "run" /\ node = "execute_tool" /\ node' = "update_context"
  /\ _extract_tool_call(LastMessage(state).content).found
  /\ ~ToolFound(_extract_tool_call(LastMessage(state).content).tool_name)

\* C8 as stated: whenever one of these steps fails while the session is
\* connected, the client receives an event of type error.
C8_EveryFailureIsAnErrorEvent ==
  [][ ( /\ Connected /\ SendsSucceeded
        /\ ListFails \/ CallFails \/ AnalysisFails \/ SummaryFails \/ LookupFails )
      => Delivered("error") ]_vars

\* C8 amended: while the session is connected and its sends succeed, a failed
\* Reasoning Client call in analyze_and_plan and a failed lookup of a tool
\* name each deliver an event of type error that describes the failure and
\* carries the iteration.  The other failures deliver no error event of their
\* own: a failed tools/list call delivers nothing (the run goes on without
\* tools), a failed tools/call round trip of execute_tool delivers
\* tool_execution_result with success = false, one of update_context delivers
\* system_update, and a failed Reasoning Client call in finalize delivers
\* feedback_loop_complete with the error text as its summary.
C8_FailuresReportedInBand ==
  [][ (Connected /\ SendsSucceeded) =>
        /\ AnalysisFails =>
             /\ ErrorDelivered(S("Analysis error"))
             /\ delivered'[Len(delivered')].iteration = state'.iteration
        /\ LookupFails =>
             /\ ErrorDelivered(S("Tool not found"))
             /\ delivered'[Len(delivered')].iteration = state.iteration
        /\ ListFails => delivered' = <<>>
        /\ (CallFails /\ node = "execute_tool") =>
             /\ ~Delivered("error")
             /\ delivered'[Len(delivered')].type = "tool_execution_result"
             /\ ~delivered'[Len(delivered')].success
        /\ (CallFails /\ node = "update_context") =>
             /\ ~Delivered("error")
             /\ delivered'[Len(delivered')].type = "system_update"
        /\ SummaryFails =>
             /\ \E i \in 1..Len(delivered') :
                  /\ delivered'[i].type = "feedback_loop_complete"
                  /\ delivered'[i].summary = S("Error generating summary")
             /\ \A i \in 1..Len(delivered') :
                  delivered'[i].type = "error" => delivered'[i].message = S("WebSocket error")
      ]_vars

\* the run whose analysis failed was told so, and its summary failed too: the
\* client has just received the complete event with the error text
C8_Witness ==
  /\ RunStarted
  /\ \E i \in Positions("error") : events[i].message = S("Analysis error")
  /\ \E i \in 1..Len(delivered) :
       /\ delivered[i].type = "feedback_loop_complete"
       /\ delivered[i].summary = S("Error generating summary")
       /\ delivered[i].total_iterations >= 1

\* ------------------------------------------------------------------ C9
\* the events of the run: those after langgraph_workflow_start
RunPositions ==
  IF RunStarted
  THEN (CHOOSE i \in Positions("langgraph_workflow_start") : TRUE) + 1 .. Len(events)
  ELSE {}

\* the node that emits an event of the run ("none": execute_feedback_loop or
\* the endpoint)
Owner(e) ==
  CASE e.type = "workflow_node" -> e.node
    [] e.type = "system_context" -> "initialize"
    [] e.type \in {"iteration_start", "gemini_analysis"} -> "analyze_and_plan"
    [] e.type = "error" /\ e.message = S("Analysis error") -> "analyze_and_plan"
    [] e.type \in {"tool_execution_start", "tool_execution_result"} -> "execute_tool"
    [] e.type = "error" /\ e.message \in {S("Tool not found"), S("Tool execution error")}
         -> "execute_tool"
    [] e.type \in {"system_update", "context_update_skipped"} -> "update_context"
    [] e.type = "feedback_loop_complete" -> "finalize"
    [] OTHER -> "none"

\* the edges of the workflow graph
Edges ==
  { << "initialize", "analyze_and_plan" >>,
    << "analyze_and_plan", "execute_tool" >>, << "analyze_and_plan", "finalize" >>,
    << "execute_tool", "update_context" >>,
    << "update_context", "analyze_and_plan" >>, << "update_context", "finalize" >> }

\* the event at position i opens a visit in the order of the graph: it is the
\* first event after langgraph_workflow_start and of initialize, or the event
\* before it is of a node that has an edge to its node
OpensVisit(i) ==
  IF events[i - 1].type = "langgraph_workflow_start"
  THEN Owner(events[i]) = "initialize"
  ELSE << Owner(events[i - 1]), Owner(events[i]) >> \in Edges

\* the event at position i continues the visit of the event before it
ContinuesVisit(i) == Owner(events[i - 1]) = Owner(events[i])

\* the k-th iteration_start event carries the number k
IterationsCount ==
  LET starts == Positions("iteration_start")
  IN \A i \in starts : events[i].iteration = Cardinality({j \in starts : j <= i})

\* C9 as stated: the events of a run are in the order of the node visits, the
\* workflow_node event of a visit precedes every other event of that visit
\* (every workflow_node event opens a visit, every other event of a node
\* continues one), and the iteration_start events carry 1, 2, 3, ...
C9_NodeEventAnnouncedFirst ==
  /\ IterationsCount
  /\ \A i \in RunPositions :
       IF events[i].type = "workflow_node"
       THEN OpensVisit(i)
       ELSE Owner(events[i]) # "none" => ContinuesVisit(i)

\* C9 amended: the events of a run are in the order of the node visits, and
\* the workflow_node event of a visit precedes every other event of that
\* visit, except that analyze_and_plan emits iteration_start immediately before
\* its workflow_node event, which carries the same iteration: a visit of
\* analyze_and_plan is opened by iteration_start, every other visit by its
\* workflow_node event; the iteration_start events carry 1, 2, 3, ...
C9_EventsFollowVisits ==
  /\ IterationsCount
  /\ \A i \in RunPositions :
       CASE events[i].type = "iteration_start" ->
              /\ OpensVisit(i)
              /\ i + 1 \in Visits("analyze_and_plan")
              /\ events[i + 1].iteration = events[i].iteration
         [] events[i].type = "workflow_node" /\ events[i].node = "analyze_and_plan" ->
              /\ events[i - 1].type = "iteration_start"
              /\ events[i - 1].iteration = events[i].iteration
         [] events[i].type = "workflow_node" /\ events[i].node # "analyze_and_plan" ->
              OpensVisit(i)
         [] OTHER ->
              Owner(events[i]) # "none" =>
                ContinuesVisit(i) /\ events[i - 1].type # "iteration_start"

\* a run went twice through analyze_and_plan, execute_tool and update_context
\* and is past finalize
C9_Witness ==
  /\ Cardinality(Positions("iteration_start")) >= 2
  /\ Cardinality(Visits("update_context")) >= 2
  /\ Positions("feedback_loop_complete") # {}

\* ------------------------------------------------------------------ C10
\* the workflow of the run raised: the except clause of execute_feedback_loop
\* sent its event
Raised == \E i \in Positions("error") : events[i].message = S("LangGraph workflow error")

\* the first of a set of positions
FirstOf(ps) == CHOOSE i \in ps : \A j \in ps : i <= j

\* the log begins with the connection event and the events that open a run, as
\* far as the run has come: langgraph_workflow_start, workflow_node of
\* initialize, system_context, and later the first workflow_node of
\* analyze_and_plan with iteration 1
RunOpens ==
  /\ events[1].type = "connection"
  /\ Positions("langgraph_workflow_start") = {2}
  /\ Len(events) >= 3 => (events[3].type = "workflow_node" /\ events[3].node = "initialize")
  /\ Len(events) >= 4 => events[4].type = "system_context"
  /\ Visits("analyze_and_plan") # {} =>
       /\ FirstOf(Visits("analyze_and_plan")) > 4
       /\ events[FirstOf(Visits("analyze_and_plan"))].iteration = 1

\* one feedback_loop_complete after the first analyze_and_plan visit, then one
\* langgraph_workflow_complete
RunCloses ==
  /\ Visits("analyze_and_plan") # {}
  /\ Cardinality(Positions("feedback_loop_complete")) = 1
  /\ Cardinality(Positions("langgraph_workflow_complete")) = 1
  /\ FirstOf(Visits("analyze_and_plan")) < FirstOf(Positions("feedback_loop_complete"))
  /\ FirstOf(Positions("feedback_loop_complete"))
       < FirstOf(Positions("langgraph_workflow_complete"))

\* the iterations the complete events report
TotalIterations == events[FirstOf(Positions("langgraph_workflow_complete"))].total_iterations

\* C10 as stated: a run on a connected session whose workflow does not raise
\* emits connection, langgraph_workflow_start, workflow_node(initialize),
\* system_context, workflow_node(analyze_and_plan, iteration = 1), later one
\* feedback_loop_complete and one langgraph_workflow_complete, which is the
\* last event, with no more iterations than max_iterations.
C10_CompleteIsLastWithinBudget ==
  (RunStarted /\ ~Raised) =>
    /\ RunOpens
    /\ pc # "run" =>
         /\ RunCloses
         /\ FirstOf(Positions("langgraph_workflow_complete")) = Len(events)
         /\ TotalIterations <= RunBudget

\* C10 amended: the same sequence, in which langgraph_workflow_complete is the
\* last event the run itself sends: the only event that can follow it is the
\* error event of the endpoint, sent when closing the gateway raises, after
\* which the handler returns; and the number of iterations does not exceed the
\* larger of max_iterations and 1.
C10_RunEventSequence ==
  (RunStarted /\ ~Raised) =>
    /\ RunOpens
    /\ Cardinality(Positions("feedback_loop_complete")) <= 1
    /\ Cardinality(Positions("langgraph_workflow_complete")) <= 1
    /\ pc = "run" => Positions("langgraph_workflow_complete") = {}
    /\ pc # "run" =>
         /\ RunCloses
         /\ \/ FirstOf(Positions("langgraph_workflow_complete")) = Len(events)
            \/ /\ pc = "returned"
               /\ FirstOf(Positions("langgraph_workflow_complete")) = Len(events) - 1
               /\ events[Len(events)] = WebSocketError
         /\ TotalIterations = Cardinality(Positions("iteration_start"))
         /\ TotalIterations <= (IF RunBudget >= 1 THEN RunBudget ELSE 1)

\* a run of two iterations or more has completed and the endpoint is reading
\* the next command
C10_Witness ==
  /\ RunStarted /\ ~Raised /\ pc = "receive"
  /\ Positions("langgraph_workflow_complete") = {Len(events)}
  /\ events[Len(events)].total_iterations >= 2
  /\ events[Len(events)].tools_executed >= 1

\* ------------------------------------------------------------------ C11
\* a step of the run: initialize_workflow or a node of the graph
RunStep ==
  \/ initialize_workflow
  \/ _initialize_node
  \/ _analyze_and_plan_node
  \/ _execute_tool_node
  \/ _update_context_node
  \/ _finalize_node

\* the node visits a budget allows: initialize, then analyze_and_plan,
\* execute_tool and update_context in every iteration but the last, whose
\* analyze_and_plan is followed by finalize
VisitBound(budget) == 3 * (IF budget >= 1 THEN budget ELSE 1)

\* the nodes of a run, initialize_workflow before the graph is entered
Nodes ==
  { "initialize_workflow", "initialize", "analyze_and_plan", "execute_tool",
    "update_context", "finalize" }

\* the run moves on from its node: to another node, or out of the graph
Advance == pc = "run" /\ node \in Nodes /\ node' \in (Nodes \cup {"none"}) \ {node}

\* every call of a run returns, and the event loop resumes the run then: a
\* run in progress moves on
LiveSpec == Spec /\ WF_node(Advance)

\* the node visits of a run are bounded by its budget, and finalize is the
\* last of them
VisitsBounded ==
  (RunStarted /\ ~Raised) =>
    /\ Cardinality(Positions("workflow_node")) <= VisitBound(RunBudget)
    /\ pc = "run" =>
         /\ Visits("finalize") = {}
         /\ Cardinality(Positions("workflow_node")) < VisitBound(RunBudget)
    /\ pc # "run" => Cardinality(Visits("finalize")) = 1

\* C11: every run terminates.  When each call returns, a run in progress
\* comes to its end, through finalize unless the workflow raised; and the
\* nodes it visits on the way are bounded by the iteration budget.
C11_RunTerminates ==
  /\ [] VisitsBounded
  /\ (pc = "run") ~> (pc # "run" /\ (Raised \/ Visits("finalize") # {}))

\* a run with a budget of two or more iterations used every visit the budget
\* allows and is over
C11_Witness ==
  /\ RunStarted /\ ~Raised /\ pc # "run"
  /\ RunBudget >= 2
  /\ Cardinality(Positions("workflow_node")) = VisitBound(RunBudget)
  /\ Visits("finalize") # {}

\* ------------------------------------------------------------------ C12
\* the endpoint gives a start_feedback_loop command to a new executor
Dispatches ==
  /\ pc' = "run" /\ node' = "initialize_workflow"
  /\ << pc, node, command >>' # << pc, node, command >>

\* the run of the log has sent its last event: the workflow complete event, or
\* the error event of a workflow that raised
RunEnded == Positions("langgraph_workflow_complete") # {} \/ Raised

\* C12: a session has one run at a time.  A start_feedback_loop command is
\* dispatched only when the handler is reading commands with no run in
\* progress, the run before it having sent its final event; a command sent
\* while a run is in progress stays unread as long as the run lasts.
C12_OneRunAtATime ==
  [][ /\ Dispatches =>
           /\ pc = "receive" /\ node = "none"
           /\ state = NoState /\ command = NoState
           /\ RunStarted => RunEnded
      /\ (pc = "run" /\ inbox # <<>> /\ pc' = "run") => inbox' = inbox ]_vars

\* a second start_feedback_loop was sent while a run is visiting its nodes
C12_Witness ==
  /\ pc = "run" /\ node = "finalize"
  /\ inbox = << "start_feedback_loop" >>
  /\ Visits("analyze_and_plan") # {}

\* ------------------------------------------------------------------ C13
\* the client sent stop_feedback_loop and the handler has not read it
StopPending == inbox = << "stop_feedback_loop" >>

\* the endpoint answered a stop_feedback_loop command
StopProcessed ==
  \E i \in Positions("connection") :
    /\ "message" \in DOMAIN events[i]
    /\ events[i].message = S("LangGraph workflow stopped by user")

\* the events that end the nodes of a run and the run
Completed ==
  /\ Positions("feedback_loop_complete") # {}
  /\ Positions("langgraph_workflow_complete") # {}

\* C13: a stop_feedback_loop sent during a run does not interrupt it.  While
\* the run lasts the command stays unread and unanswered; the run goes on
\* through its nodes to finalize and sends feedback_loop_complete and
\* langgraph_workflow_complete; the command is answered only by a handler that
\* is reading commands again.
C13_StopDoesNotInterrupt ==
  /\ [][ /\ (pc = "run" /\ StopPending /\ pc' = "run") => (StopPending' /\ ~StopProcessed')
         /\ (StopProcessed' /\ ~StopProcessed) => (pc = "receive" /\ node = "none") ]_vars
  /\ (pc = "run" /\ node \in Nodes \ {"initialize_workflow"} /\ StopPending)
       ~> (pc # "run" /\ Completed)

\* the run has returned with its completion events while the stop command sent
\* during it is still to be read
C13_Witness == pc = "receive" /\ StopPending /\ Completed

\* ------------------------------------------------------------------ C14
\* the handler has returned after answering a stop_feedback_loop command
StoppedByUser == pc = "returned" /\ StopProcessed

\* C14: after the server has processed a stop_feedback_loop command the
\* session identifier is no longer registered.
C14_StopUnregisters == StoppedByUser => session_id \notin active_connections

\* ------------------------------------------------------------------ C15
\* send_message to a session that is not registered, or whose channel is not
\* connected: nothing is delivered, printed or changed in the registry
SendIsNoOp ==
  \A active \in SUBSET {session_id}, connected \in BOOLEAN :
    ~(session_id \in active /\ connected) =>
      LET r == send_messages(<<>>, active, connected,
                             << [type |-> "error"], [type |-> "connection"] >>, 0)
      IN r.delivered = <<>> /\ r.active = active /\ r.printed = {}

\* send_text raised in the step
SendFailed == "Error sending message" \in printed'

\* the nodes of the graph before finalize
Working == pc = "run" /\ node \in Nodes \ {"initialize_workflow", "finalize"}

\* C15: send is best-effort.  A send to an unknown session or to a channel
\* that is not connected is a no-op.  A send that fails removes the
\* registration and is not propagated: what was sent before it in the step
\* was delivered, the node that was sending goes on to the next node and the
\* workflow does not raise.  From then on nothing is delivered to the session
\* and the registry does not change.
C15_SendIsBestEffort ==
  [][ /\ SendIsNoOp
      /\ SendFailed =>
           /\ session_id \in active_connections \/ pc = "connect"
           /\ session_id \notin active_connections'
           /\ Len(delivered') < Len(events') - Len(IF Receiving THEN KeptEvents ELSE events)
           /\ Working => (pc' = "run" /\ node' \in Nodes /\ ~Raised')
      /\ (session_id \notin active_connections /\ pc # "connect") =>
           /\ delivered' = <<>>
           /\ ~SendFailed
           /\ active_connections' = active_connections ]_vars

\* a run that lost its registration to a failed send has gone on to finalize,
\* its later sends delivering nothing
C15_Witness ==
  /\ pc = "run" /\ node = "finalize"
  /\ session_id \notin active_connections /\ client_state = "CONNECTED"
  /\ delivered = <<>> /\ printed = {}
  /\ Positions("feedback_loop_complete") = {} /\ Visits("update_context") # {}

\* ------------------------------------------------------------------ C16
\* a connection event with status connected
IsConnected(e) == e.type = "connection" /\ "status" \in DOMAIN e /\ e.status = "connected"

\* C16: connect registers the channel under the session identifier and sends
\* the connection event with status connected before any other event of the
\* session: the step that leaves connect with the API key set registers the
\* session (unless the send of the event itself failed) and hands exactly
\* that event to the channel, and it stays the first event of the log.
C16_ConnectedEventFirst ==
  [][ /\ (pc = "connect" /\ pc' # "returned") =>
           /\ events = <<>> /\ delivered = <<>>
           /\ Len(events') = 1 /\ IsConnected(events'[1])
           /\ client_state' = "CONNECTED"
           /\ IF SendFailed
              THEN delivered' = <<>> /\ active_connections' = {}
              ELSE delivered' = events' /\ active_connections' = {session_id}
      /\ events # <<>> => (events' # <<>> /\ events'[1] = events[1])
      /\ (delivered' # <<>> /\ pc # "connect") => IsConnected(events[1]) ]_vars

\* a run is sending its events on a session that connect registered
C16_Witness ==
  /\ pc = "run" /\ session_id \in active_connections
  /\ Len(events) > 2 /\ IsConnected(events[1])
  /\ delivered # <<>>

\* ------------------------------------------------------------------ C17
\* execute_feedback_loop is over: the handler is not inside a run
RunOver == pc # "run"

\* C17: when execute_feedback_loop is over the gateway of the run is closed:
\* no subprocess of it is alive and its process handle is cleared, and closing
\* it again changes nothing.
C17_GatewayClosedAfterRun ==
  RunOver =>
    /\ mcp_client.live = {}
    /\ mcp_client.process = 0
    /\ close(mcp_client, FALSE) = [client |-> mcp_client, raised |-> FALSE]

\* ------------------------------------------------------------------ C18
\* the step is the last of a run whose workflow completed, on a session that
\* is registered and whose sends succeeded
RunCompletes ==
  /\ pc = "run" /\ pc' # "run"
  /\ Positions("langgraph_workflow_complete")' # {}
  /\ session_id \in active_connections /\ ~SendFailed

\* the state a run starts from: nothing of an earlier run
Fresh(st) ==
  /\ st.iteration = 0
  /\ st.executed_tools = <<>>
  /\ st.system_context = EmptyDict
  /\ Len(st.messages) = 1

\* C18: after a run completes the session stays registered and the handler
\* reads further commands; a later start_feedback_loop begins a run with a
\* gateway of its own and a state with iteration 0, no executed tool and no
\* context.
C18_SessionOutlivesRun ==
  [][ /\ RunCompletes => (pc' = "receive" /\ session_id \in active_connections')
      /\ Dispatches => (mcp_client' = NewMCPClient /\ state' = NoState /\ tools' = <<>>)
      /\ (pc = "run" /\ node = "initialize_workflow" /\ node' = "initialize") => Fresh(state') ]_vars

\* ------------------------------------------------------------------ C19
\* a run is in progress on a session that a failed send has unregistered
Dropped == pc = "run" /\ session_id \notin active_connections

\* C19: a session dropped in the middle of a run does not cancel the run.
\* The run stays dropped and delivers nothing more; it leaves the graph only
\* through finalize; it comes to finalize and to its end, where close has
\* left no subprocess alive.
C19_DroppedRunGoesOn ==
  /\ [][ Dropped =>
           /\ delivered' = <<>>
           /\ session_id \notin active_connections'
           /\ pc' # "run" => /\ node \in {"finalize", "initialize_workflow"}
                             /\ mcp_client'.live = {} ]_vars
  /\ (Dropped /\ node \in Nodes \ {"initialize_workflow"})
       ~> (pc # "run" /\ Visits("finalize") # {} /\ Completed /\ mcp_client.live = {})

\* a run that went through a tool execution has ended, its last step
\* delivering nothing to the dropped session, with the gateway it used closed
C19_Witness ==
  /\ pc = "receive" /\ session_id \notin active_connections
  /\ Completed /\ Visits("update_context") # {}
  /\ delivered = <<>> /\ printed = {}
  /\ mcp_client.spawned > 0 /\ mcp_client.process = 0 /\ mcp_client.live = {}

\* ------------------------------------------------------------------ C20
\* the handler returns in the step: the server is done with the session
Ends == pc # "returned" /\ pc' = "returned"

\* the last event handed to send_message in the step is an error event
EndsWithError == events' # <<>> /\ events'[Len(events')].type = "error"

\* the client went away: receive_text raised WebSocketDisconnect
ClientLeft == Receiving /\ client_state' = "DISCONNECTED"

\* the client sent stop_feedback_loop, which the server answers with a
\* connection event before it leaves its loop
ClientStopped == Receiving /\ StopProcessed'

\* without the API key the handler closes the socket and returns: nothing is
\* registered, sent or started
NoKeyCloses ==
  ~api_key =>
    /\ pc = "connect" => (pc' = "returned" /\ client_state' = "DISCONNECTED")
    /\ active_connections' = {} /\ events' = <<>> /\ delivered' = <<>>
    /\ node' = "none" /\ state' = NoState /\ command' = NoState

\* C20 as stated: without the API key the connection is closed at once, the
\* session never registered, no event sent, no run started; and whenever the
\* server ends a session that had the key, it sends an error event last.
C20_OnlyMissingKeyEndsSilently ==
  [][ /\ NoKeyCloses
      /\ (Ends /\ api_key /\ ~ClientLeft) => EndsWithError ]_vars

\* C20: without the API key the connection is closed at once: the session is
\* never registered, no event is sent and no run starts.  Whenever the server
\* ends a session that had the key, it is past connect and either sends an
\* error event last or is answering the client's stop_feedback_loop command.
C20_MissingKeyIsTheOnlyHardStop ==
  [][ /\ NoKeyCloses
      /\ (Ends /\ api_key /\ ~ClientLeft) =>
           /\ pc # "connect"
           /\ EndsWithError \/ ClientStopped ]_vars

\* the handler has returned for want of the API key
C20_Witness ==
  /\ ~api_key /\ pc = "returned" /\ client_state = "DISCONNECTED"
  /\ events = <<>> /\ active_connections = {}

\* ------------------------------------------------------------------ C21
\* the step hands an error event with this message to send_message last
SendsError(message) ==
  /\ events' # events
  /\ events'[Len(events')].type = "error"
  /\ events'[Len(events')].message = S(message)

\* no run exists after the step
NoRun == pc' # "run" /\ node' = "none" /\ state' = NoState /\ command' = NoState

\* the channel carried the event of the step, unless send_message was a no-op
\* or its send_text raised
Carried ==
  (Connected /\ ~SendFailed) => delivered' = << events'[Len(events')] >>

\* C21: a message that is not JSON starts no run: the handler sends an error
\* event, removes the session from the registry and returns.  A
\* start_feedback_loop with an empty request sends an error event, starts no
\* run, and the handler goes on reading commands with the registry as it was
\* (a registration is lost only when the send of the event itself failed).
C21_BadCommandsStartNoRun ==
  [][ Receiving =>
        /\ SendsError("WebSocket error") =>
             /\ NoRun /\ Carried
             /\ pc' = "returned"
             /\ session_id \notin active_connections'
        /\ SendsError("Request is required") =>
             /\ NoRun /\ Carried
             /\ pc' = "receive"
             /\ IF SendFailed
                THEN session_id \notin active_connections'
                ELSE active_connections' = active_connections ]_vars

\* the handler answered an empty request with an error event and is reading
\* commands on the session, still registered
C21_Witness ==
  /\ pc = "receive" /\ session_id \in active_connections
  /\ Len(events) = 2 /\ events[2] = [type |-> "error", message |-> S("Request is required")]
  /\ delivered = << events[2] >>

\* ------------------------------------------------------------------ C22
\* the executed-tool records of a state that succeeded
Succeeded(st) == {i \in 1..Len(st.executed_tools) : st.executed_tools[i].success}

\* the counts of an event are those of a state
CountsOf(e, st) ==
  /\ e.total_iterations = st.iteration
  /\ e.tools_executed = Len(st.executed_tools)
  /\ e.successful_tools = Cardinality(Succeeded(st))

\* C22: the feedback_loop_complete event that finalize sends carries the
\* counts of the final state: tools_executed the number of executed-tool
\* records, successful_tools the number of them with success true, and
\* successful_tools <= tools_executed <= total_iterations; the
\* langgraph_workflow_complete event after it carries the same three counts.
C22_CompletionCounts ==
  [][ (pc = "run" /\ node = "finalize" /\ pc' # "run") =>
        LET done == events'[Len(events) + 2]
            complete == events'[Len(events) + 3]
        IN /\ Len(events') >= Len(events) + 3
           /\ done.type = "feedback_loop_complete"
           /\ complete.type = "langgraph_workflow_complete"
           /\ CountsOf(done, state)
           /\ done.successful_tools <= done.tools_executed
           /\ done.tools_executed <= done.total_iterations
           /\ complete.total_iterations = done.total_iterations
           /\ complete.tools_executed = done.tools_executed
           /\ complete.successful_tools = done.successful_tools ]_vars

\* a run completed after two tool executions of which one succeeded
C22_Witness ==
  /\ pc # "run" /\ Completed
  /\ \E i \in Positions("feedback_loop_complete") :
       /\ events[i].tools_executed = 2
       /\ events[i].successful_tools = 1
       /\ events[i].total_iterations = 2

\* ------------------------------------------------------------------ C23
\* the status endpoint has answered
Answered == status_reply # NoReply

\* C23: the status endpoint answers status connected only when the tools/list
\* round trip succeeded, answers an error status when the subprocess could
\* not be reached, and has closed its gateway before it returns.
C23_StatusTellsConnectivity ==
  Answered =>
    /\ status_reply.reply.status \in {"connected", "error"}
    /\ status_reply.reply.status = "connected" => status_reply.reached
    /\ ~status_reply.reached => status_reply.reply.status = "error"
    /\ status_reply.client.process = 0 /\ status_reply.client.live = {}

\* ------------------------------------------------------------------ C24
\* the workflow has a state: ainvoke has been given the initial state
InGraph == pc = "run" /\ state # NoState

\* C24: the iteration counter never decreases during a run, and whenever
\* execute_tool is entered it does not exceed max_iterations.
C24_IterationMonotoneWithinBudget ==
  [][ InGraph =>
        /\ InGraph' => state'.iteration >= state.iteration
        /\ node' = "execute_tool" => state'.iteration <= state'.max_iterations ]_vars

\* a second tool execution is entered on the last iteration the budget allows
C24_Witness ==
  /\ InGraph /\ node = "execute_tool"
  /\ state.iteration = 2
  /\ state.iteration = state.max_iterations - 1

\* ------------------------------------------------------------------ C25
\* the text of the last message holds a marker
Marked(st, marker) == TextContains(LastMessage(st).content, marker)

\* the node the described routing leads to after analyze_and_plan
RoutedTo(st) ==
  CASE st.iteration >= st.max_iterations -> "finalize"
    [] st.iteration < st.max_iterations /\ Marked(st, "EXECUTE:") -> "execute_tool"
    [] st.iteration < st.max_iterations /\ ~Marked(st, "EXECUTE:") /\ Marked(st, "COMPLETE:") ->
         "finalize"
    [] OTHER -> "execute_tool"

\* C25: after analyze_and_plan the workflow goes to finalize when
\* iteration >= max_iterations whatever the text; otherwise to execute_tool
\* when the text holds EXECUTE: (with or without COMPLETE:); otherwise to
\* finalize when it holds COMPLETE:; otherwise to execute_tool.
C25_RoutingAfterAnalysis ==
  [][ (pc = "run" /\ node = "analyze_and_plan" /\ node' # node) =>
        node' = RoutedTo(state') ]_vars

\* within the budget, a reply holding both markers was routed to execute_tool
C25_Witness ==
  /\ InGraph /\ node = "execute_tool"
  /\ Marked(state, "EXECUTE:") /\ Marked(state, "COMPLETE:")

\* ------------------------------------------------------------------ C26
\* the step is a visit of update_context
UpdateStep == pc = "run" /\ node = "update_context" /\ node' # node

\* the most recent executed-tool record names one of these operations
LastNames(st, operations) ==
  /\ st.executed_tools # <<>>
  /\ st.executed_tools[Len(st.executed_tools)].tool_name \in operations

\* the refresh is due as described
RefreshIsDue(st) ==
  \/ LastNames(st, context_loading_tools)
  \/ /\ LastNames(st, data_modifying_tools)
     /\ "context_loaded" \in DOMAIN st.system_context
     /\ st.system_context.context_loaded

\* the event of the step after its workflow_node event
Reported == events'[Len(events) + 2].type

\* C26: update_context refreshes the snapshot exactly when the most recent
\* executed-tool record names one of the three read-all operations, or one of
\* the nine data-mutating operations while context_loaded is true.  A refresh
\* makes the three read-all calls and replaces the snapshot; otherwise the
\* snapshot and the gateway are left as they were.  The node sends
\* system_update after a refresh and context_update_skipped otherwise.
C26_RefreshExactlyWhenDue ==
  [][ UpdateStep =>
        /\ Cardinality(context_loading_tools) = 3
        /\ Cardinality(data_modifying_tools) = 9
        /\ Len(events') = Len(events) + 2
        /\ IF RefreshIsDue(state)
           THEN /\ mcp_client'.request_id = mcp_client.request_id + 3
                /\ state'.system_context.context_loaded
                /\ Reported = "system_update"
           ELSE /\ mcp_client' = mcp_client
                /\ state'.system_context = state.system_context
                /\ Reported = "context_update_skipped" ]_vars

\* the snapshot was refreshed after a data-mutating operation because an
\* earlier read-all operation had loaded it
C26_Witness ==
  /\ InGraph /\ node \in {"analyze_and_plan", "finalize"}
  /\ LastNames(state, data_modifying_tools)
  /\ events[Len(events)].type = "system_update"
  /\ Len(state.executed_tools) = 2

\* ------------------------------------------------------------------ C27
\* the last message of the conversation is the one _handle_error appended for
\* a failed analysis
AnalysisFailed ==
  InGraph /\ LastMessage(state).content = << S("Analysis error") >>

\* C27: a failure of the Reasoning Client in analyze_and_plan does not raise
\* out of the node.  The node appends one message, the error message, and
\* sends an error event last; the workflow does not raise and is routed by
\* that message; and the run comes to finalize and its completion events.
C27_AnalysisFailureIsAbsorbed ==
  /\ [][ AnalysisFails =>
           /\ pc' = "run" /\ ~Raised'
           /\ Len(state'.messages) = Len(state.messages) + 1
           /\ state'.iteration = state.iteration + 1
           /\ events'[Len(events')] = [type |-> "error", iteration |-> state'.iteration,
                                       message |-> S("Analysis error")]
           /\ node' = RoutedTo(state') ]_vars
  /\ AnalysisFailed ~> (pc # "run" /\ Completed /\ ~Raised)

\* a run completed in which an analysis failed within the budget and the
\* workflow went on to execute_tool
C27_Witness ==
  /\ pc # "run" /\ Completed
  /\ \E i \in Positions("error") : events[i].message = S("Analysis error")
  /\ Visits("execute_tool") # {}
  /\ Cardinality(Visits("analyze_and_plan")) = 1

\* ------------------------------------------------------------------ C28
\* the step is a visit of execute_tool
ExecuteStep == pc = "run" /\ node = "execute_tool" /\ node' # node

\* the call execute_tool reads from the last message
Planned == _extract_tool_call(LastMessage(state).content)

\* no tool of the executor has the name
Undiscovered(tool_name) == \A i \in 1..Len(tools) : tools[i].name # tool_name

\* the event of the node
NodeEvent == [type |-> "workflow_node", node |-> "execute_tool", iteration |-> state.iteration]

\* C28: in execute_tool, when the last message has no parsable EXECUTE line
\* the state is returned unchanged, and when the parsed name matches no
\* discovered tool an error message is appended and an error event is sent;
\* in both cases the gateway sends no request and the executed-tool log is
\* unchanged.
C28_NoCallWithoutKnownTool ==
  [][ ExecuteStep =>
        /\ ~Planned.found =>
             /\ state' = state
             /\ mcp_client' = mcp_client
             /\ events' = Append(events, NodeEvent)
        /\ (Planned.found /\ Undiscovered(Planned.tool_name)) =>
             /\ state'.executed_tools = state.executed_tools
             /\ state' = [state EXCEPT !.messages =
                            Append(@, AIMessage(<< S("Tool not found") >>))]
             /\ mcp_client' = mcp_client
             /\ Len(events') = Len(events) + 3
             /\ events'[Len(events')] = [type |-> "error", iteration |-> state.iteration,
                                         message |-> S("Tool not found")] ]_vars

\* execute_tool has reported a planned tool that is not in the catalog, the
\* gateway having made no request beyond tools/list
C28_Witness ==
  /\ InGraph /\ node = "update_context"
  /\ LastMessage(state).content = << S("Tool not found") >>
  /\ events[Len(events)].type = "error"
  /\ state.executed_tools = <<>> /\ mcp_client.request_id = 1

\* ------------------------------------------------------------------ C30
\* the id the gateway gives to its next request, whatever the subprocess does
\* with it
NextIds(c) ==
  { send_request(c, "tools/call", exited, outcome, EmptyDict).client.request_id :
      exited \in BOOLEAN, outcome \in {"ok"} \cup Failures }

\* the gateway of the run made a request in the step
Requested == mcp_client'.request_id # mcp_client.request_id

\* C30: the ids a gateway gives to its requests are 1, 2, 3, ...: a new
\* gateway has given none, every request gets the id after the one before it,
\* also after a failed request and after the subprocess was started again, and
\* the counter of a gateway never goes back.
C30_RequestIdsIncrease ==
  [][ /\ NewMCPClient.request_id = 0
      /\ NextIds(mcp_client) = {mcp_client.request_id + 1}
      /\ NextIds(mcp_client') = {mcp_client'.request_id + 1}
      /\ Dispatches => mcp_client' = NewMCPClient
      /\ (Requested /\ ~Dispatches) =>
           /\ pc = "run"
           /\ mcp_client'.request_id - mcp_client.request_id \in {1, 3} ]_vars

\* the gateway has given a fourth id after a request that failed and a
\* subprocess that was started again
C30_Witness ==
  /\ pc = "run" /\ mcp_client.request_id >= 4
  /\ mcp_client.spawned >= 2

\* ------------------------------------------------------------------ C29
\* the gateways there are: the one of the run and the one the status endpoint
\* made for its request
Gateways ==
  {mcp_client} \cup (IF status_reply = NoReply THEN {} ELSE {status_reply.client})

HeldAlive(c, exited) == c.process # 0 /\ ~exited /\ c.process \in c.live

\* C31: a gateway has at most one live subprocess, the one its handle names.
\* _ensure_server_running leaves a gateway whose held process is alive as it
\* is, and otherwise starts one subprocess, which is then the only live one;
\* calling it again changes nothing.
C31_AtMostOneSubprocess ==
  \A c \in Gateways :
    /\ Cardinality(c.live) <= 1
    /\ c.live \subseteq {c.process}
    /\ \A exited \in BOOLEAN :
         LET e == _ensure_server_running(c, exited)
         IN /\ HeldAlive(c, exited) => e = c
            /\ ~HeldAlive(c, exited) => e.spawned = c.spawned + 1
            /\ e.live = {e.process}
            /\ _ensure_server_running(e, FALSE) = e

\* three requests of a run were answered by the one subprocess the gateway
\* started
C31_Witness ==
  /\ pc = "run" /\ mcp_client.request_id = 3 /\ mcp_client.spawned = 1
  /\ mcp_client.live = {mcp_client.process}

\* ------------------------------------------------------------------ C32
\* the executed-tool log of a state
Log(st) == st.executed_tools

\* the records of log are the first records of longer, unchanged
Extends(longer, log) ==
  /\ Len(longer) >= Len(log)
  /\ SubSeq(longer, 1, Len(log)) = log

\* the iteration numbers of the records go up
Ascending(log) == \A i, j \in 1..Len(log) : i < j => log[i].iteration < log[j].iteration

\* C32: at most one tool is executed per iteration.  A visit of execute_tool
\* appends no record or one record, which has the number of the iteration; no
\* other node touches the log; the records the log held before a step are
\* still there, unchanged and in their places, after it; the iteration numbers
\* of the records are strictly increasing.
C32_OneToolPerIteration ==
  [][ (InGraph /\ InGraph') =>
        /\ Extends(Log(state'), Log(state))
        /\ Len(Log(state')) <= Len(Log(state)) + 1
        /\ Log(state') # Log(state) =>
             /\ ExecuteStep
             /\ Log(state')[Len(Log(state'))].iteration = state.iteration
        /\ Ascending(Log(state')) ]_vars

\* the log holds the records of two iterations and execute_tool has just
\* appended the second
C32_Witness ==
  /\ pc = "run" /\ node = "update_context"
  /\ Len(Log(state)) = 2
  /\ Log(state)[2].iteration = state.iteration

\* ------------------------------------------------------------------ C33
\* payloads between the parentheses of a line: none, blanks, JSON values that
\* are and are not mappings, text that is no JSON, brackets nested too deep
Payloads == { <<>>, <<" ">>, S("{}"), S("{k:v}"), S("[1]"), <<"not", "json">>, S("[[[[") }

\* lines of a reply: calls with every payload, and lines that are no calls
Lines ==
  { <<"EXECUTE:", t, "(">> \o p \o <<")">> : t \in {"get_all_stores", "create_store"}, p \in Payloads }
  \cup
  { <<" ", "EXECUTE:", " ", "create_store", " ", "(", "{k:v}", ")", " ">>,
    <<"EXECUTE:", ")", "create_store", "(">>,
    <<"EXECUTE:", "create_store">>,
    <<"EXECUTE:", "create_store", "(", "{}">>,
    <<"COMPLETE:", "done">>,
    <<"then", "EXECUTE:", "create_store", "(", ")">>,
    <<>> }

\* the replies _extract_tool_call is applied to: one or two lines
Texts == { << l >> : l \in Lines } \cup { << l, m >> : l, m \in Lines }

\* the first line of a text that starts with EXECUTE: and has both parentheses
FirstWithCallForm(text) ==
  CHOOSE l \in 1..Len(text) :
    /\ HasCallForm(text[l])
    /\ \A k \in 1..(l - 1) : ~HasCallForm(text[k])

\* the arguments the claim gives to a payload: its JSON value, {} when it is
\* empty or not JSON
ArgumentsOf(payload) ==
  IF Len(Strip(payload)) = 1 /\ Strip(payload)[1] \in DOMAIN JsonValues
  THEN JsonValues[Strip(payload)[1]].value
  ELSE EmptyDict

\* what the claim says _extract_tool_call returns for a text
Extracted(text) ==
  IF \A l \in 1..Len(text) : ~HasCallForm(text[l])
  THEN None
  ELSE [found |-> TRUE,
        tool_name |-> CallOf(ToolPart(text[FirstWithCallForm(text)])).tool_name,
        arguments |-> ArgumentsOf(ParamsStr(ToolPart(text[FirstWithCallForm(text)])))]

\* what _extract_tool_call returns, with the arguments as a plain value
Returns(text) ==
  IF _extract_tool_call(text).found
  THEN [found |-> TRUE,
        tool_name |-> _extract_tool_call(text).tool_name,
        arguments |-> _extract_tool_call(text).arguments.value]
  ELSE None

\* C33: for every text _extract_tool_call returns, for the first line of the
\* form EXECUTE: name(payload), the name and the payload parsed as JSON, with
\* {} for an empty or unparsable payload, and None when no line has that form;
\* so does it for the reply execute_tool reads in a run.
C33_ExtractFirstCall ==
  /\ \A text \in Texts : Returns(text) = Extracted(text)
  /\ (InGraph /\ node = "execute_tool") =>
       Returns(LastMessage(state).content) = Extracted(LastMessage(state).content)

\* ------------------------------------------------------------------ C34
\* a slice that takes the first three records
Recent_oldest(log) == SubSeq(log, 1, IF Len(log) > 3 THEN 3 ELSE Len(log))

\* state["executed_tools"][-3:]
Recent(log) == SubSeq(log, IF Len(log) > 3 THEN Len(log) - 2 ELSE 1, Len(log))

\* the parts of the prompt that depend on the state; records: the list under
\* PREVIOUSLY EXECUTED TOOLS, listed: whether the prompt has that part
_create_analysis_prompt(st) ==
  [ iteration |-> st.iteration,
    tools |-> st.available_tools,
    loaded |-> Get(st.system_context, "context_loaded", FALSE),
    listed |-> st.executed_tools # <<>>,
    records |-> IF st.executed_tools # <<>> THEN Recent(st.executed_tools) ELSE <<>>,
    request |-> st.current_request ]

\* the logs a run of up to MaxLog iterations with a tool each can have
MaxLog == 5

Logs ==
  UNION { [ 1..n -> { [iteration |-> 0, tool_name |-> S("create_store"), success |-> b] :
                        b \in BOOLEAN } ] : n \in 0..MaxLog }

\* the log with the numbers of the iterations in it
Numbered(log) == [i \in 1..Len(log) |-> [log[i] EXCEPT !.iteration = i]]

\* a state of a run with the log
WithLog(log) ==
  [ iteration |-> Len(log) + 1, available_tools |-> <<>>, system_context |-> EmptyDict,
    executed_tools |-> Numbered(log), current_request |-> S("list all stores") ]

\* records are the last of log, as many as there are up to three, in the order
\* of log
LastThreeInOrder(records, log) ==
  /\ Len(records) = (IF Len(log) > 3 THEN 3 ELSE Len(log))
  /\ \A k \in 1..Len(records) : records[k] = log[Len(log) - Len(records) + k]

\* C34: when analyze_and_plan builds its prompt, the records in it are the
\* last three records of the log in the order of the log when the log has more
\* than three, and the whole log in order when it has one to three; so for
\* the log of the run, and for every log of up to MaxLog records in its place.
C34_PromptHasLastThree ==
  (InGraph /\ node = "analyze_and_plan") =>
    /\ Log(state) # <<>> =>
         /\ _create_analysis_prompt(state).listed
         /\ LastThreeInOrder(_create_analysis_prompt(state).records, Log(state))
         /\ _create_analysis_prompt(state).records = Log(state)
    /\ \A log \in Logs :
         Len(log) >= 1 =>
           /\ _create_analysis_prompt(WithLog(log)).listed
           /\ LastThreeInOrder(_create_analysis_prompt(WithLog(log)).records, Numbered(log))
           /\ Len(log) <= 3 => _create_analysis_prompt(WithLog(log)).records = Numbered(log)

\* analyze_and_plan is about to build the prompt of the third iteration from a
\* log of two records
C34_Witness ==
  /\ pc = "run" /\ node = "analyze_and_plan"
  /\ Len(Log(state)) = 2
  /\ _create_analysis_prompt(state).records = Log(state)
  /\ \E log \in Logs : Len(log) > 3 /\ Len(_create_analysis_prompt(WithLog(log)).records) = 3

\* ------------------------------------------------------------------ C35
\* the records of a log before its last
Earlier(log) == 1..(Len(log) - 1)

\* the feedback_loop_complete events of the log of events
Completions == {i \in Positions("feedback_loop_complete") : TRUE}

\* C35: in every run only the last record of the executed-tool log can have
\* success = false: every record before the last succeeded, at every moment
\* of the run, and the counts of feedback_loop_complete differ by at most one.
C35_OnlyLastRecordFails ==
  /\ InGraph => \A i \in Earlier(Log(state)) : Log(state)[i].success
  /\ \A i \in Completions :
       events[i].successful_tools >= events[i].tools_executed - 1

\* a run has ended with two records, the second of which failed
C35_Witness ==
  /\ InGraph /\ node = "finalize"
  /\ Len(Log(state)) = 2
  /\ Log(state)[1].success /\ ~Log(state)[2].success

\* ------------------------------------------------------------------ C36
\* the requests the gateway of the run has made after tools/list
CallsMade == IF mcp_client.request_id > 1 THEN mcp_client.request_id - 1 ELSE 0

\* C36: no tool is executed in the iteration that reaches the budget.  In a
\* run with max_iterations = N >= 1 the log never holds more than N - 1
\* records, at finalize and in feedback_loop_complete in particular, and
\* execute_tool is entered only below the budget; a run with N = 1 visits
\* neither execute_tool nor update_context and its gateway sends no request
\* but tools/list.
C36_NoToolAtTheBudget ==
  /\ (InGraph /\ state.max_iterations >= 1) =>
       /\ Len(Log(state)) <= state.max_iterations - 1
       /\ node = "execute_tool" => state.iteration < state.max_iterations
       /\ state.max_iterations = 1 =>
            /\ node \notin {"execute_tool", "update_context"}
            /\ CallsMade = 0
  /\ (RunStarted /\ RunBudget >= 1) =>
       /\ \A i \in Completions : events[i].tools_executed <= RunBudget - 1
       /\ RunBudget = 1 => Visits("execute_tool") = {} /\ Visits("update_context") = {}

\* a run with max_iterations = 1 is at finalize after a reply that asked for
\* a tool, and its gateway has sent tools/list only
C36_Witness ==
  /\ InGraph /\ node = "finalize"
  /\ state.max_iterations = 1 /\ state.iteration = 1
  /\ TextContains(LastMessage(state).content, "EXECUTE:")
  /\ mcp_client.request_id = 1 /\ Log(state) = <<>>

\* ------------------------------------------------------------------ C37
\* state["system_context"].get("context_loaded", False)
context_loaded(st) == Get(st.system_context, "context_loaded", FALSE)

\* a record before the last names a read-all operation
ReadAllEarlier(st) ==
  \E i \in Earlier(Log(st)) : Log(st)[i].tool_name \in context_loading_tools

\* C37: the context_loaded flag of the snapshot is false after initialize; it
\* becomes true only through a refresh of update_context, and then stays true
\* as long as the run lasts; a refresh after a data-mutating tool happens only
\* when a read-all tool was executed earlier in the run.
C37_ContextLoadedIsSticky ==
  [][ InGraph =>
        /\ node = "initialize" => ~context_loaded(state')
        /\ (InGraph' /\ node # "initialize" /\ context_loaded(state)) => context_loaded(state')
        /\ (InGraph' /\ ~context_loaded(state) /\ context_loaded(state')) =>
             (UpdateStep /\ Reported = "system_update")
        /\ (UpdateStep /\ Reported = "system_update"
              /\ LastNames(state, data_modifying_tools)) =>
             (context_loaded(state) /\ ReadAllEarlier(state)) ]_vars

\* the snapshot, loaded by the read-all tool of the first iteration, was
\* refreshed after the data-mutating tool of the second
C37_Witness ==
  /\ InGraph /\ context_loaded(state)
  /\ Len(Log(state)) = 2
  /\ Log(state)[1].tool_name \in context_loading_tools
  /\ Log(state)[2].tool_name \in data_modifying_tools
  /\ events[Len(events)].type = "system_update"

\* ------------------------------------------------------------------ C38
\* the position of the first workflow_node event of a log after position i,
\* or the position after the end of the log
NextNodeEvent(log, i) ==
  IF \E j \in (i + 1)..Len(log) : log[j].type = "workflow_node"
  THEN CHOOSE j \in (i + 1)..Len(log) :
         /\ log[j].type = "workflow_node"
         /\ \A k \in (i + 1)..(j - 1) : log[k].type # "workflow_node"
  ELSE Len(log) + 1

\* the events between position i of a log and the next workflow_node event
\* that answer a tool_execution_start
Answers(log, i) ==
  { j \in (i + 1)..(NextNodeEvent(log, i) - 1) :
      log[j].type \in {"tool_execution_result", "error"} }

\* every tool_execution_start of a log has one answer, with its iteration
StartsAnswered(log) ==
  \A i \in 1..Len(log) :
    log[i].type = "tool_execution_start" =>
      /\ Cardinality(Answers(log, i)) = 1
      /\ \A j \in Answers(log, i) :
           /\ "iteration" \in DOMAIN log[j]
           /\ log[j].iteration = log[i].iteration

\* C38: every tool_execution_start event of a run is followed, before the next
\* workflow_node event, by exactly one tool_execution_result or error event
\* with the same iteration number; and execute_tool sends
\* tool_execution_start for the call it parsed whether or not a tool of that
\* name was discovered, followed by the error event when there is none.
C38_StartIsAnswered ==
  [][ /\ StartsAnswered(events')
      /\ (ExecuteStep /\ Planned.found) =>
           /\ Len(events') = Len(events) + 3
           /\ events'[Len(events) + 2].type = "tool_execution_start"
           /\ events'[Len(events) + 2].tool_name = Planned.tool_name
           /\ events'[Len(events) + 2].iteration = state.iteration
           /\ Undiscovered(Planned.tool_name) => events'[Len(events) + 3].type = "error" ]_vars

\* the log of a run has a tool_execution_start answered by a result and a
\* later one, for a tool that was not discovered, answered by an error event
C38_Witness ==
  \E i, j \in Positions("tool_execution_start") :
    /\ i < j
    /\ events[i + 1].type = "tool_execution_result"
    /\ events[j].tool_name = S("no_such_tool")
    /\ events[j + 1].type = "error" /\ events[j + 1].iteration = events[j].iteration

====
